---- MODULE Spec2Model ----
(***************************************************************************)
(* A model of the stark-from-zero prover/verifier pipeline: the toy hash,  *)
(* the prime-field layer, the polynomial layer, the Merkle commitment, the *)
(* Fiat-Shamir transcript, prove_fibonacci and verify_proof.               *)
(*                                                                         *)
(* The program computes on Rust i128 values (hash words, field values up   *)
(* to 3 * 2^30 + 1 and their products).  Those do not fit the 32-bit      *)
(* integers of TLC, so an i128 is modelled as a sign and a magnitude,      *)
(* the magnitude being a little-endian sequence of limbs in base 2^15      *)
(* without leading zero limbs.  Wrapping operations reduce modulo 2^128    *)
(* into the two's complement range, as the hardware does.                  *)
(***************************************************************************)
EXTENDS Integers, Sequences, FiniteSets, TLC

(***************************************************************************)
(* Natural numbers as limb sequences.                                      *)
(***************************************************************************)
Base == 2^15

Limb(a, i) == IF i <= Len(a) THEN a[i] ELSE 0

Min(a, b) == IF a < b THEN a ELSE b

Max(a, b) == IF a > b THEN a ELSE b

\* a sequence given as a function, with every element computed once
Collected(f, n) == SubSeq(f, 1, n)

\* `value` bound to a name for what follows, In: as in the program, the value
\* is computed once, before what follows.
Let(value, In(_)) == IF value = value THEN In(value) ELSE In(value)

Let2(first, second, In(_, _)) ==
    IF first = first /\ second = second THEN In(first, second) ELSE In(first, second)

\* The state after at most k more turns of a loop whose body is Step and which
\* ends when Done holds.
RECURSIVE Turns(_, _, _, _)
Turns(Step(_), Done(_), st, k) ==
    IF k = 0 \/ Done(st) THEN st ELSE Turns(Step, Done, Step(st), k - 1)

\* The state in which a while loop ends: its body is Step, it runs until Done.
RECURSIVE Loop(_, _, _)
Loop(Step(_), Done(_), st) ==
    IF Done(st) THEN st ELSE Loop(Step, Done, Turns(Step, Done, Step(st), 7))

\* The value of acc after a for loop over i = 1, ..., n whose body turns acc
\* into Body(acc, i).
ForEach(Body(_, _), init, n) ==
    Loop(LAMBDA st : [i |-> st.i + 1, acc |-> Body(st.acc, st.i + 1)],
         LAMBDA st : st.i >= n,
         [i |-> 0, acc |-> init]).acc

\* the sum of f[lo], ..., f[hi], by halves
RECURSIVE SumOf(_, _, _)
SumOf(f, lo, hi) ==
    IF lo > hi THEN 0
    ELSE IF lo = hi THEN f[lo]
    ELSE SumOf(f, lo, (lo + hi) \div 2) + SumOf(f, (lo + hi) \div 2 + 1, hi)

\* a without its leading zero limbs
NatNorm(a) ==
    IF a = <<>> THEN a
    ELSE IF a[Len(a)] # 0 THEN a
    ELSE LET used == {k \in 1..Len(a) : a[k] # 0}
         IN  IF used = {} THEN <<>>
             ELSE SubSeq(a, 1, CHOOSE k \in used : \A j \in used : j <= k)

\* 0 <= n < Base^3
NatFromInt(n) ==
    IF n = 0 THEN <<>>
    ELSE IF n < Base THEN <<n>>
    ELSE IF n \div Base < Base THEN <<n % Base, n \div Base>>
    ELSE <<n % Base, (n \div Base) % Base, (n \div Base) \div Base>>

\* The carry into limb k of a number given by limb sums s[i] <= 2 * Base - 2:
\* a lower limb overflows and every limb in between passes the carry on.
CarryInto(s, k) ==
    \E j \in 1..(k - 1) :
        s[j] >= Base /\ \A i \in (j + 1)..(k - 1) : s[i] = Base - 1

\* the number whose limb sums are s, each at most 2 * Base - 2
NatCarried(s) ==
    NatNorm(Collected([k \in 1..(Len(s) + 1) |->
               ((IF k > Len(s) THEN 0 ELSE s[k])
                + (IF CarryInto(s, k) THEN 1 ELSE 0)) % Base], Len(s) + 1))

NatAdd(a, b) ==
    IF a = <<>> THEN b
    ELSE IF b = <<>> THEN a
    ELSE LET n == Max(Len(a), Len(b))
         IN  NatCarried(Collected([k \in 1..n |-> Limb(a, k) + Limb(b, k)], n))

\* The borrow from limb k of a number given by limb differences d: a lower
\* limb is negative and every limb in between is 0.
BorrowFrom(d, k) ==
    \E j \in 1..(k - 1) : d[j] < 0 /\ \A i \in (j + 1)..(k - 1) : d[i] = 0

\* the number whose limb differences are d, each above -Base
NatBorrowed(d) ==
    NatNorm(Collected([k \in 1..Len(d) |->
               (d[k] + Base - (IF BorrowFrom(d, k) THEN 1 ELSE 0)) % Base], Len(d)))

\* a - b for a >= b
NatSub(a, b) ==
    IF b = <<>> THEN a
    ELSE NatBorrowed(Collected([k \in 1..Len(a) |-> a[k] - Limb(b, k)], Len(a)))

\* -1, 0, 1 as a < b, a = b, a > b
NatCmp(a, b) ==
    IF Len(a) < Len(b) THEN -1
    ELSE IF Len(a) > Len(b) THEN 1
    ELSE IF a = b THEN 0
    ELSE LET top == CHOOSE k \in 1..Len(a) :
                        a[k] # b[k] /\ \A j \in (k + 1)..Len(a) : a[j] = b[j]
         IN  IF a[top] < b[top] THEN -1 ELSE 1

\* a * c for a single limb 0 <= c < Base
NatMulSmall(a, c) ==
    IF c = 0 \/ a = <<>> THEN <<>>
    ELSE IF c = 1 THEN a
    ELSE NatCarried(Collected([k \in 1..(Len(a) + 1) |->
             (IF k > Len(a) THEN 0 ELSE (a[k] * c) % Base)
             + (IF k = 1 THEN 0 ELSE (a[k - 1] * c) \div Base)], Len(a) + 1))

\* What the limb products a[i] * b[j] add to limb k of a * b: their low halves
\* for i + j = k + 1 and their high halves for i + j = k.
NatMulColumn(a, b, k) ==
    SumOf([i \in 1..Len(a) |->
              (IF 1 <= k + 1 - i /\ k + 1 - i <= Len(b)
               THEN (a[i] * b[k + 1 - i]) % Base ELSE 0)
              + (IF 1 <= k - i /\ k - i <= Len(b)
                 THEN (a[i] * b[k - i]) \div Base ELSE 0)],
          1, Len(a))

\* the number whose limbs are the columns cols, each below Base * Base
NatOfColumns(cols) ==
    NatAdd(NatNorm(Collected([k \in 1..Len(cols) |-> cols[k] % Base], Len(cols))),
           NatNorm(<<0>> \o Collected([k \in 1..Len(cols) |-> cols[k] \div Base],
                                      Len(cols))))

NatMul(a, b) ==
    IF a = <<>> \/ b = <<>> THEN <<>>
    ELSE IF Len(b) = 1 THEN NatMulSmall(a, b[1])
    ELSE IF Len(a) = 1 THEN NatMulSmall(b, a[1])
    ELSE NatOfColumns(Collected([k \in 1..(Len(a) + Len(b)) |-> NatMulColumn(a, b, k)],
                                Len(a) + Len(b)))

\* One step of short division, from the top limb down: st.i limbs are left,
\* st.r is the running remainder, st.q the quotient limbs found so far.
NatDivSmallStep(a, d, st) ==
    LET cur == st.r * Base + a[st.i]
    IN  [i |-> st.i - 1, r |-> cur % d, q |-> <<cur \div d>> \o st.q]

\* quotient (a limb sequence) and remainder (a number) of a by 0 < d < Base
NatDivModSmall(a, d) ==
    Let(Loop(LAMBDA st : NatDivSmallStep(a, d, st), LAMBDA st : st.i = 0,
             [i |-> Len(a), r |-> 0, q |-> <<>>]),
        LAMBDA res : [q |-> NatNorm(res.q), r |-> res.r])

\* the quotient limb q corrected downwards until q * d fits into cur
RECURSIVE NatDivFix(_, _, _)
NatDivFix(cur, d, q) ==
    Let(NatMulSmall(d, q),
        LAMBDA prod : IF NatCmp(prod, cur) > 0 THEN NatDivFix(cur, d, q - 1)
                      ELSE [q |-> q, r |-> NatSub(cur, prod)])

\* the quotient limb estimated from the top limbs of cur, for a divisor d of
\* n >= 2 limbs whose top limb is at least Base / 2
NatDivGuess(cur, d) ==
    Min((Limb(cur, Len(d) + 1) * Base + Limb(cur, Len(d))) \div d[Len(d)], Base - 1)

\* One step of long division: the next limb of a is brought down to the
\* remainder, the quotient limb is estimated and corrected.
NatDivStep(a, d, st) ==
    Let(NatNorm(<<a[st.i]>> \o st.r),
        LAMBDA cur : Let(NatDivFix(cur, d, NatDivGuess(cur, d)),
                         LAMBDA fix : [i |-> st.i - 1, r |-> fix.r,
                                       q |-> <<fix.q>> \o st.q]))

\* long division of aa by dd, the result scaled back by f
NatDivScaled(aa, dd, f) ==
    Let(Loop(LAMBDA st : NatDivStep(aa, dd, st), LAMBDA st : st.i = 0,
             [i |-> Len(aa), r |-> <<>>, q |-> <<>>]),
        LAMBDA res : [q |-> NatNorm(res.q), r |-> NatDivModSmall(res.r, f).q])

\* quotient and remainder (both limb sequences) of a by d # 0: long division,
\* the operands scaled so that the divisor's top limb is at least Base / 2
NatDivMod(a, d) ==
    IF NatCmp(a, d) < 0 THEN [q |-> <<>>, r |-> a]
    ELSE IF Len(d) = 1
    THEN Let(NatDivModSmall(a, d[1]), LAMBDA res : [q |-> res.q, r |-> NatFromInt(res.r)])
    ELSE NatDivScaled(NatMulSmall(a, Base \div (d[Len(d)] + 1)),
                      NatMulSmall(d, Base \div (d[Len(d)] + 1)),
                      Base \div (d[Len(d)] + 1))

(***************************************************************************)
(* i128 values: sign and magnitude.                                        *)
(***************************************************************************)
Mk(neg, mag) == [neg |-> neg /\ mag # <<>>, mag |-> mag]

I(n) == IF n < 0 THEN Mk(TRUE, NatFromInt(-n)) ELSE Mk(FALSE, NatFromInt(n))

Zero == I(0)

One == I(1)

IsZero(x) == x.mag = <<>>

Neg(x) == Mk(~x.neg, x.mag)

Add(x, y) ==
    IF x.neg = y.neg THEN Mk(x.neg, NatAdd(x.mag, y.mag))
    ELSE Let(NatCmp(x.mag, y.mag),
             LAMBDA c : IF c = 0 THEN Mk(FALSE, <<>>)
                        ELSE IF c > 0 THEN Mk(x.neg, NatSub(x.mag, y.mag))
                        ELSE Mk(y.neg, NatSub(y.mag, x.mag)))

Sub(x, y) == Add(x, Neg(y))

Mul(x, y) == Mk(x.neg # y.neg, NatMul(x.mag, y.mag))

\* Rust's x % y: the remainder has the sign of the dividend
Rem(x, y) == Mk(x.neg, NatDivMod(x.mag, y.mag).r)

\* Rust's x / y: truncation towards zero
Quot(x, y) == Mk(x.neg # y.neg, NatDivMod(x.mag, y.mag).q)

\* -1, 0, 1 as x < y, x = y, x > y
Cmp(x, y) ==
    IF x.neg /\ ~y.neg THEN -1
    ELSE IF ~x.neg /\ y.neg THEN 1
    ELSE IF x.neg THEN NatCmp(y.mag, x.mag)
    ELSE NatCmp(x.mag, y.mag)

\* a small value back as a number of the model
RECURSIVE NatToInt(_)
NatToInt(a) == IF a = <<>> THEN 0 ELSE a[1] + Base * NatToInt(Tail(a))

ToInt(x) == IF x.neg THEN 0 - NatToInt(x.mag) ELSE NatToInt(x.mag)

\* 2^128 and 2^127: 128 = 8 * 15 + 8
Pow2_128 == <<0, 0, 0, 0, 0, 0, 0, 0, 256>>

Pow2_127 == <<0, 0, 0, 0, 0, 0, 0, 0, 128>>

\* a mod 2^128
NatLow128(a) ==
    IF Len(a) < 9 THEN a
    ELSE NatNorm(SubSeq(a, 1, 8) \o <<a[9] % 256>>)

\* the 128-bit pattern of an i128, as a natural number below 2^128
ToU128(x) ==
    IF x.neg THEN NatSub(Pow2_128, x.mag) ELSE x.mag

\* the i128 with a given 128-bit pattern
FromU128(u) ==
    IF NatCmp(u, Pow2_127) >= 0 THEN Mk(TRUE, NatSub(Pow2_128, u)) ELSE Mk(FALSE, u)

\* an exact integer reduced to the i128 it wraps to
Wrap(x) ==
    Let(NatLow128(x.mag),
        LAMBDA u : IF u = <<>> THEN Mk(FALSE, <<>>)
                   ELSE IF x.neg THEN FromU128(NatSub(Pow2_128, u))
                   ELSE FromU128(u))

wrapping_mul(x, y) == Wrap(Mul(x, y))

wrapping_add(x, y) == Wrap(Add(x, y))

\* i128::rotate_left(1): the top bit of the pattern comes back in at the bottom
rotate_left_1(x) ==
    Let(ToU128(x),
        LAMBDA u : FromU128(NatAdd(NatLow128(NatMulSmall(u, 2)),
                                   IF NatCmp(u, Pow2_127) >= 0 THEN <<1>> ELSE <<>>)))

(***************************************************************************)
(* hashing.rs                                                              *)
(***************************************************************************)
\* hash.wrapping_mul(113).wrapping_add(digit) on the 128-bit pattern of hash:
\* prod is the pattern times 113, the digit has the sign of the number
hash_add_digit(prod, negative, digit) ==
    NatLow128(IF ~negative THEN NatAdd(prod, NatFromInt(digit))
              ELSE IF digit = 0 THEN prod
              ELSE IF prod = <<>> THEN NatSub(Pow2_128, NatFromInt(digit))
              ELSE NatSub(prod, NatFromInt(digit)))

\* One turn of the loop of hash: st.num is what is left of the number, st.hash
\* the 128-bit pattern of the running hash.  The turn takes the last decimal
\* digit of num.
hash_step(st) ==
    Let(NatDivModSmall(st.num.mag, 10),
        LAMBDA dm : [num  |-> Mk(st.num.neg, dm.q),
                     hash |-> hash_add_digit(NatMulSmall(st.hash, 113), st.num.neg, dm.r)])

hash(input) ==
    Let(wrapping_mul(input, I(100003)),
        LAMBDA num : FromU128(Loop(hash_step, LAMBDA st : IsZero(st.num),
                                   [num |-> num, hash |-> <<3>>]).hash))

(***************************************************************************)
(* finite_field.rs: an element is its value and the prime of its field.    *)
(***************************************************************************)
\* DEFAULT_FIELD_SIZE = 3 * 2^30 + 1
DEFAULT_FIELD_SIZE == Add(Mul(I(3), Mul(I(2^15), I(2^15))), I(1))

new_fielded(value, prime) == [value |-> Rem(value, prime), prime |-> prime]

new(value) == new_fielded(value, DEFAULT_FIELD_SIZE)

ZERO == [value |-> Zero, prime |-> DEFAULT_FIELD_SIZE]

is_zero(e) == IsZero(e.value)

\* PartialEq: the same prime and the same value
eq(self, other) == self.prime = other.prime /\ self.value = other.value

element_hash(e) == hash(e.value)

add(self, other) ==
    new_fielded(Rem(Add(self.value, other.value), self.prime), self.prime)

\* the prime is added first so that the value stays positive
subtract(self, other) ==
    new_fielded(Rem(Sub(Add(self.value, self.prime), other.value), self.prime),
                self.prime)

\* the assert_eq! of multiply fails: the operands are of different fields
multiply_panics(self, other) == self.prime # other.prime

multiply(self, other) ==
    new_fielded(Rem(Mul(self.value, other.value), self.prime), self.prime)

\* One round of the loop of pow: exponentiation by squaring.
pow_step(st) ==
    Let(NatDivModSmall(st.exp.mag, 2),
        LAMBDA halves :
            [result |-> IF halves.r = 1 THEN multiply(st.result, st.base) ELSE st.result,
             base   |-> multiply(st.base, st.base),
             exp    |-> Mk(FALSE, halves.q)])

\* the loop of pow is over: exp > 0 no longer holds
pow_done(st) == st.exp.neg \/ IsZero(st.exp)

pow(self, exponent) ==
    Loop(pow_step, pow_done,
         [result |-> new_fielded(One, self.prime), base |-> self, exp |-> exponent]).result

\* inverse with the exponent p - 1 in place of p - 2
inverse_by_full_order(self) == pow(self, Sub(self.prime, One))

\* Fermat's little theorem: a^(p-2)
inverse(self) == pow(self, Sub(self.prime, I(2)))

negate(self) == new_fielded(Rem(Sub(self.prime, self.value), self.prime), self.prime)

(***************************************************************************)
(* polynomial/: a polynomial is the sequence of the values of its          *)
(* coefficients, lowest degree first.  The field of a coefficient is the   *)
(* default field: every constructor of the source builds it with           *)
(* FiniteFieldElement::new.                                                *)
(***************************************************************************)
\* Polynomial::new
Polynomial_new(coefficients) ==
    Collected([k \in 1..Len(coefficients) |-> new(coefficients[k]).value],
              Len(coefficients))

\* Polynomial::degree: the index of the highest non-zero coefficient, else 0
RECURSIVE degree_from(_, _)
degree_from(coefficients, i) ==
    IF i = 0 THEN 0
    ELSE IF ~IsZero(coefficients[i]) THEN i - 1
    ELSE degree_from(coefficients, i - 1)

degree(poly) == degree_from(poly, Len(poly))

\* Polynomial::multiply_scalar: coeff * scalar, as written (no reduction)
multiply_scalar(poly, scalar) ==
    Collected([k \in 1..Len(poly) |-> Mul(poly[k], scalar)], Len(poly))

\* the sum of coeff1 * coeff2 over the pairs of indices that add up to position k
product_sum(p, q, k) ==
    ForEach(LAMBDA acc, i : IF k + 1 - i >= 1 /\ k + 1 - i <= Len(q)
                            THEN Add(acc, Mul(p[i], q[k + 1 - i]))
                            ELSE acc,
            Zero, Len(p))

\* Polynomial::multiply: the raw products are summed, then mapped into the field
poly_multiply(p, q) ==
    Polynomial_new(Collected([k \in 1..(Len(p) + Len(q) - 1) |-> product_sum(p, q, k)],
                             Len(p) + Len(q) - 1))

\* Polynomial::add: the coefficients are summed as written (no reduction)
poly_add(p, q) ==
    Collected([k \in 1..Max(Len(p), Len(q)) |->
                  Add(IF k <= Len(p) THEN p[k] ELSE Zero,
                      IF k <= Len(q) THEN q[k] ELSE Zero)],
              Max(Len(p), Len(q)))

\* Polynomial::evaluate: the sum of x^i * coeff_i in the field of x
evaluate(poly, x) ==
    ForEach(LAMBDA acc, i : add(acc, multiply(pow(x, I(i - 1)),
                                              new_fielded(poly[i], x.prime))),
            new_fielded(Zero, x.prime), Len(poly))

\* interpolate.rs: the numerator of the i-th basis polynomial, the product of
\* (x - x_j) over j # i
basis_numerator(points, i) ==
    ForEach(LAMBDA acc, j : IF j = i THEN acc
                            ELSE poly_multiply(acc, Polynomial_new(<<Neg(points[j][1]), One>>)),
            Polynomial_new(<<One>>), Len(points))

\* the denominator: the product of (x_i - x_j) over j # i, in the field
basis_denominator(points, i) ==
    ForEach(LAMBDA acc, j : IF j = i THEN acc
                            ELSE multiply(acc, new(Sub(points[i][1], points[j][1]))),
            new(One), Len(points))

\* scaled_basis with the denominator in place of its inverse
scaled_basis_without_inverse(points, i) ==
    Let(multiply(new(points[i][2]), basis_denominator(points, i)),
        LAMBDA scale : multiply_scalar(basis_numerator(points, i), scale.value))

\* the i-th basis polynomial scaled by y_i / denominator
scaled_basis(points, i) ==
    Let(multiply(new(points[i][2]), inverse(basis_denominator(points, i))),
        LAMBDA scale : multiply_scalar(basis_numerator(points, i), scale.value))

\* lagrange_interpolation over points <<x, y>>: the sum of the scaled basis
\* polynomials
lagrange_interpolation(points) ==
    ForEach(LAMBDA acc, i : poly_add(acc, scaled_basis(points, i)),
            Polynomial_new(<<>>), Len(points))

(***************************************************************************)
(* merkle_tree.rs.  An Option is a sequence: <<>> is None, <<v>> is Some.  *)
(***************************************************************************)
None == <<>>

Some(v) == <<v>>

RECURSIVE PowerOfTwoAtLeast(_, _)
PowerOfTwoAtLeast(p, n) == IF p >= n THEN p ELSE PowerOfTwoAtLeast(2 * p, n)

\* usize::next_power_of_two: the smallest power of two >= n
next_power_of_two(n) == IF n = 0 THEN 1 ELSE PowerOfTwoAtLeast(1, n)

\* a combination that reads its first input only
hash_first_input(a, b) == hash(hash(a))

hash_two_inputs(a, b) ==
    Let2(hash(a), hash(b),
         LAMBDA ha, hb : hash(wrapping_add(IF Cmp(ha, hb) <= 0 THEN ha ELSE hb,
                                           IF Cmp(ha, hb) <= 0 THEN hb ELSE ha)))

\* the level above `hashes`: one node per chunk of two
next_level(hashes) ==
    Collected([k \in 1..(Len(hashes) \div 2) |->
                  hash_two_inputs(hashes[2 * k - 1], hashes[2 * k])],
              Len(hashes) \div 2)

\* the levels from `hashes` up to the single-element level
build_levels(hashes) ==
    Loop(LAMBDA nodes : Append(nodes, next_level(nodes[Len(nodes)])),
         LAMBDA nodes : Len(nodes[Len(nodes)]) <= 1,
         <<hashes>>)

\* padding that repeats the last item
pad_with_last(items, target, pad) ==
    Collected([k \in 1..Max(target, Len(items)) |->
                  IF k <= Len(items) THEN items[k] ELSE items[Len(items)]],
              Max(target, Len(items)))

\* `items` extended with `pad` up to length target
pad_to(items, target, pad) ==
    Collected([k \in 1..Max(target, Len(items)) |->
                  IF k <= Len(items) THEN items[k] ELSE pad],
              Max(target, Len(items)))

\* MerkleTree::new()
MerkleTree_new == [root |-> None, nodes |-> <<>>, padded_leaves |-> <<>>]

\* the tree over a non-empty list of leaf hashes (the body of build from the
\* padding on)
tree_of_hashes(hashes, padded) ==
    Let(build_levels(pad_to(hashes, next_power_of_two(Len(hashes)), Zero)),
        LAMBDA nodes : [root          |-> Some(nodes[Len(nodes)][1]),
                        nodes         |-> nodes,
                        padded_leaves |-> padded])

\* elements.iter().map(|e| e.hash())
element_hashes(elements) ==
    Collected([k \in 1..Len(elements) |-> element_hash(elements[k])], Len(elements))

\* build that stores no root
build_without_root(elements) ==
    IF elements = <<>>
    THEN [root |-> None, nodes |-> << <<>> >>, padded_leaves |-> <<>>]
    ELSE [tree_of_hashes(element_hashes(elements),
                         pad_to(elements, next_power_of_two(Len(elements)), new(Zero)))
             EXCEPT !.root = None]

\* MerkleTree::build: every field of the tree is overwritten
build(elements) ==
    IF elements = <<>>
    THEN [root |-> None, nodes |-> << <<>> >>, padded_leaves |-> <<>>]
    ELSE tree_of_hashes(element_hashes(elements),
                        pad_to(elements, next_power_of_two(Len(elements)), new(Zero)))

root(tree) == tree.root

leaf_count(tree) == IF tree.nodes = <<>> THEN 0 ELSE Len(tree.nodes[1])

\* proof_from with the node on the path in place of its sibling
RECURSIVE proof_from_own_nodes(_, _, _)
proof_from_own_nodes(nodes, lvl, idx) ==
    IF lvl > Len(nodes) THEN <<>>
    ELSE IF Len(nodes[lvl]) = 1 THEN <<nodes[lvl][1]>>
    ELSE <<nodes[lvl][idx + 1]>> \o proof_from_own_nodes(nodes, lvl + 1, idx \div 2)

\* the proof collected over the levels from `lvl` up, for position idx (0-based)
\* of level lvl
RECURSIVE proof_from(_, _, _)
proof_from(nodes, lvl, idx) ==
    IF lvl > Len(nodes) THEN <<>>
    ELSE IF Len(nodes[lvl]) = 1 THEN <<nodes[lvl][1]>>
    ELSE LET sibling_idx == IF idx % 2 = 0 THEN idx + 1 ELSE idx - 1
         IN  <<nodes[lvl][sibling_idx + 1]>> \o proof_from(nodes, lvl + 1, idx \div 2)

\* a lookup whose proof leaves the root out
get_merkle_proof_without_root(tree, index) ==
    IF tree.nodes = <<>> THEN [panic |-> TRUE, value |-> None]
    ELSE IF index >= Len(tree.nodes[1]) THEN [panic |-> FALSE, value |-> None]
    ELSE LET proof == proof_from(tree.nodes, 1, index)
         IN  [panic |-> FALSE, value |-> Some(SubSeq(proof, 1, Len(proof) - 1))]

\* MerkleTree::get_merkle_proof.  The outcome is a panic (self.nodes[0] on a
\* tree that holds no level), None, or Some(proof).
get_merkle_proof(tree, index) ==
    IF tree.nodes = <<>> THEN [panic |-> TRUE, value |-> None]
    ELSE IF index >= Len(tree.nodes[1]) THEN [panic |-> FALSE, value |-> None]
    ELSE [panic |-> FALSE, value |-> Some(proof_from(tree.nodes, 1, index))]

\* folding a leaf hash with the first k elements of a proof
fold_siblings(current_hash, proof, k) ==
    ForEach(LAMBDA acc, i : hash_two_inputs(acc, proof[i]), current_hash, k)

\* build_from_hashes: the tree over leaf hashes that are given directly
build_from_hashes(hashes) ==
    IF hashes = <<>>
    THEN [root |-> None, nodes |-> << <<>> >>, padded_leaves |-> <<>>]
    ELSE tree_of_hashes(hashes, <<>>)

(***************************************************************************)
(* polynomial/divide.rs                                                    *)
(***************************************************************************)
\* a coefficient as an element of the default field, its value kept as it is
coefficient(value) == [value |-> value, prime |-> DEFAULT_FIELD_SIZE]

\* the inner loop of div: quot * divisor, shifted, is subtracted from dividend
div_subtract(dividend, divisor, divisor_degree, current_degree, quot) ==
    Collected([idx \in 1..Len(dividend) |->
                  LET j == (idx - 1) - (current_degree - divisor_degree)
                  IN  IF j >= 0 /\ j <= divisor_degree
                      THEN subtract(coefficient(dividend[idx]),
                                    multiply(coefficient(divisor[j + 1]), quot)).value
                      ELSE dividend[idx]],
              Len(dividend))

\* a round of the outer loop of div that records the quotient coefficient but
\* leaves the dividend as it is
div_step_without_subtraction(divisor, divisor_degree, lead_div_inv, st) ==
    IF /\ divisor_degree + st.i < Len(st.dividend)
       /\ ~IsZero(st.dividend[divisor_degree + st.i + 1])
    THEN [i        |-> st.i - 1,
          dividend |-> st.dividend,
          quotient |-> <<multiply(coefficient(st.dividend[divisor_degree + st.i + 1]),
                                  lead_div_inv).value>> \o st.quotient]
    ELSE [i |-> st.i - 1, dividend |-> st.dividend, quotient |-> <<Zero>> \o st.quotient]

\* One round of the outer loop of div, for quotient position st.i (0-based)
div_step(divisor, divisor_degree, lead_div_inv, st) ==
    IF /\ divisor_degree + st.i < Len(st.dividend)
       /\ ~IsZero(st.dividend[divisor_degree + st.i + 1])
    THEN Let(multiply(coefficient(st.dividend[divisor_degree + st.i + 1]), lead_div_inv),
             LAMBDA quot : [i        |-> st.i - 1,
                            dividend |-> div_subtract(st.dividend, divisor, divisor_degree,
                                                      divisor_degree + st.i, quot),
                            quotient |-> <<quot.value>> \o st.quotient])
    ELSE [i |-> st.i - 1, dividend |-> st.dividend, quotient |-> <<Zero>> \o st.quotient]

\* the outer loop of div, from the highest quotient position down
div_loop(poly, divisor, divisor_degree, lead_div_inv) ==
    Loop(LAMBDA st : div_step(divisor, divisor_degree, lead_div_inv, st),
         LAMBDA st : st.i < 0,
         [i |-> degree(poly) - divisor_degree, dividend |-> poly, quotient |-> <<>>])

\* Polynomial::trim: the zero coefficients at the end removed
RECURSIVE trim(_)
trim(poly) ==
    IF poly = <<>> THEN poly
    ELSE IF IsZero(poly[Len(poly)]) THEN trim(SubSeq(poly, 1, Len(poly) - 1))
    ELSE poly

\* Polynomial::sub: the coefficients are subtracted in the field, the missing
\* ones counting as ZERO, and the result is trimmed
poly_sub(p, q) ==
    trim(Collected([k \in 1..Max(Len(p), Len(q)) |->
                       Let(IF k <= Len(p) THEN [value |-> p[k], prime |-> DEFAULT_FIELD_SIZE]
                                          ELSE ZERO,
                           LAMBDA kept :
                               IF k <= Len(q)
                               THEN subtract(kept, [value |-> q[k],
                                                    prime |-> DEFAULT_FIELD_SIZE]).value
                               ELSE kept.value)],
                   Max(Len(p), Len(q))))

\* div panics on a zero divisor and on a dividend of lower degree
div_panics(poly, divisor) ==
    \/ \A k \in 1..Len(divisor) : IsZero(divisor[k])
    \/ degree(poly) < degree(divisor)

\* div_panic_message without the comparison of the degrees
div_panic_message_without_degrees(poly, divisor) ==
    IF \A k \in 1..Len(divisor) : IsZero(divisor[k]) THEN "Division by zero"
    ELSE "none"

\* the message of the panic of div, "none" when it returns
div_panic_message(poly, divisor) ==
    IF \A k \in 1..Len(divisor) : IsZero(divisor[k]) THEN "Division by zero"
    ELSE IF degree(poly) < degree(divisor) THEN "Invalid division"
    ELSE "none"

\* Polynomial::div: quotient and remainder by long division
div(poly, divisor) ==
    Let(div_loop(poly, divisor, degree(divisor),
                 inverse(coefficient(divisor[degree(divisor) + 1]))),
        LAMBDA res : [quotient |-> res.quotient, remainder |-> trim(res.dividend)])

(***************************************************************************)
(* evaluation_domain.rs: the points 0 .. n-1 of a field                    *)
(***************************************************************************)
\* the assert!(n > 0) of new_linear fails
new_linear_panics(n) == n = 0

new_linear(prime, n) ==
    [prime  |-> prime,
     points |-> Collected([i \in 1..n |-> new_fielded(I(i - 1), prime)], n)]

size(domain) == Len(domain.points)

\* self.points[i] is out of bounds
element_panics(domain, i) == i >= Len(domain.points)

element(domain, i) == domain.points[i + 1]

\* Z_H(x): the product of (x - a) over the points a of the domain
evaluate_vanishing(domain, x) ==
    ForEach(LAMBDA acc, i : multiply(acc, subtract(x, domain.points[i])),
            new_fielded(One, domain.prime), Len(domain.points))

(***************************************************************************)
(* fiat_shamir.rs: a transcript is its state                               *)
(***************************************************************************)
Transcript_new == Zero

\* the state after absorb_i128(value)
absorb_i128(state, value) == hash(wrapping_add(state, rotate_left_1(value)))

\* One round of the loop of absorb_bytes: the byte enters the accumulator,
\* (acc << 8) | b, and the 15th byte of a chunk has the accumulator absorbed.
absorb_byte(st, b) ==
    Let(Add(Mul(st.acc, I(256)), I(b)),
        LAMBDA acc :
            IF st.count + 1 = 15
            THEN [state |-> absorb_i128(st.state, acc), acc |-> Zero, count |-> 0]
            ELSE [state |-> st.state, acc |-> acc, count |-> st.count + 1])

\* the state after absorb_bytes(bytes): what is left of the last chunk is
\* absorbed at the end
absorb_bytes(state, bytes) ==
    Let(ForEach(LAMBDA st, i : absorb_byte(st, bytes[i]),
                [state |-> state, acc |-> Zero, count |-> 0], Len(bytes)),
        LAMBDA st : IF st.count > 0 THEN absorb_i128(st.state, st.acc) ELSE st.state)

\* 0x9e37_79b9_7f4a_7c15
ChallengeSeparator == Mk(FALSE, <<31765, 32404, 26341, 29115, 9>>)

\* the state after challenge(); the challenge is that state mapped into the field
challenge_state(state) == hash(wrapping_add(state, ChallengeSeparator))

\* challenge with the element built in the default field
challenge_in_default_field(state, prime) == new(challenge_state(state))

challenge(state, prime) == new_fielded(challenge_state(state), prime)

(***************************************************************************)
(* fri.rs                                                                  *)
(***************************************************************************)
\* the asserts of fold_once fail: no values, or an odd number of them
fold_once_panics(values) == values = <<>> \/ Len(values) % 2 # 0

\* the message of the assert of fold_once that fails, "none" when none does
fold_once_panic_message(values) ==
    IF values = <<>> THEN "values must not be empty"
    ELSE IF Len(values) % 2 # 0 THEN "values length must be even"
    ELSE "none"

\* fold_once with neighbours paired: values[2i] + beta * values[2i + 1]
fold_once_of_neighbours(values, beta) ==
    LET half == Len(values) \div 2
    IN  Collected([i \in 1..half |-> add(values[2 * i - 1], multiply(beta, values[2 * i]))],
                  half)

\* new[i] = values[i] + beta * values[i + N/2]
fold_once(values, beta) ==
    LET half == Len(values) \div 2
    IN  Collected([i \in 1..half |-> add(values[i], multiply(beta, values[i + half]))],
                  half)

\* the message of the assert of fold_until that fails, "none" when none does
fold_until_assert_message(values, target_len) ==
    IF target_len = 0 THEN "target_len must be > 0"
    ELSE IF Len(values) < target_len THEN "target_len must be <= initial length"
    ELSE IF Len(values) % target_len # 0 THEN "target_len must divide initial length"
    ELSE "none"

\* One round of the loop of fold_until: the next beta is taken, and cur folded.
fold_until_step(st) ==
    IF st.betas = <<>>
    THEN [st EXCEPT !.panic = "not enough betas to fold to target_len"]
    ELSE IF fold_once_panics(st.cur)
    THEN [st EXCEPT !.panic = fold_once_panic_message(st.cur)]
    ELSE [cur   |-> fold_once(st.cur, Head(st.betas)),
          betas |-> Tail(st.betas),
          panic |-> "none"]

\* the loop of fold_until stops: cur.len() > target_len no longer holds, or
\* a panic has ended it
fold_until_loop(values, betas, target_len) ==
    Loop(fold_until_step,
         LAMBDA st : st.panic # "none" \/ Len(st.cur) <= target_len,
         [cur |-> values, betas |-> betas, panic |-> "none"])

\* fold_until: the panic message and no value, or "none" and the vector returned
fold_until(values, betas, target_len) ==
    IF fold_until_assert_message(values, target_len) # "none"
    THEN [panic |-> fold_until_assert_message(values, target_len), value |-> <<>>]
    ELSE Let(fold_until_loop(values, betas, target_len),
             LAMBDA st : [panic |-> st.panic,
                          value |-> IF st.panic = "none" THEN st.cur ELSE <<>>])

(***************************************************************************)
(* verifier.rs: the derivation of sample indices and folding challenges    *)
(***************************************************************************)
EXTENSION_FACTOR == 4

\* a u64 wrapped: 64 = 4 * 15 + 4
NatLow64(a) ==
    IF Len(a) < 5 THEN a
    ELSE NatNorm(SubSeq(a, 1, 4) \o <<a[5] % 16>>)

\* one draw of the generator: the next state and the sample point it gives
next_sample(st, extended_trace_size) ==
    Let(NatLow64(NatAdd(NatLow64(NatMul(st.rng_state, NatFromInt(1103515245))),
                        NatFromInt(12345))),
        LAMBDA next :
            [rng_state     |-> next,
             sample_points |->
                 Append(st.sample_points,
                        NatToInt(NatDivMod(next, NatFromInt(extended_trace_size)).r))])

generate_sample_points(extended_trace_size, num_samples) ==
    ForEach(LAMBDA st, i : next_sample(st, extended_trace_size),
            [rng_state |-> NatFromInt(12345), sample_points |-> <<>>],
            num_samples).sample_points

\* a challenge c as an index below count: ((c % count) + count) % count
challenge_index(c, count) == ToInt(Rem(Add(Rem(c.value, I(count)), I(count)), I(count)))

\* one challenge of the transcript st.t, kept as an index below count
next_index(st, count) ==
    Let(challenge_state(st.t),
        LAMBDA t : [t   |-> t,
                    out |-> Append(st.out,
                                   challenge_index(new_fielded(t, DEFAULT_FIELD_SIZE), count))])

derive_sample_points_from_commitment(commitment, count, num_samples) ==
    ForEach(LAMBDA st, i : next_index(st, count),
            [t   |-> absorb_i128(absorb_i128(Transcript_new, commitment), I(count)),
             out |-> <<>>],
            num_samples).out

\* one challenge of the transcript st.t, kept as a folding challenge
next_beta(st) ==
    Let(challenge_state(st.t),
        LAMBDA t : [t |-> t, out |-> Append(st.out, new_fielded(t, DEFAULT_FIELD_SIZE))])

derive_fri_betas_from_commitment(commitment, num_rounds) ==
    ForEach(LAMBDA st, i : next_beta(st),
            [t |-> absorb_i128(Transcript_new, commitment), out |-> <<>>],
            num_rounds).out

(***************************************************************************)
(* trace.rs: a trace is its rows, each row the values of its columns       *)
(***************************************************************************)
\* the row of step `step`, computed from the rows before it
fibonacci_row(rows, step, a) ==
    IF step = 0 THEN <<Zero, a, a>>
    ELSE IF step = 1 THEN <<a, a, a>>
    ELSE <<rows[step][2], rows[step][3], Add(rows[step][3], rows[step][2])>>

\* fibonacci::generate_fibonacci_trace: columns [F(n-2), F(n-1), F(n)]
generate_fibonacci_trace(num_steps, a) ==
    ForEach(LAMBDA rows, i : Append(rows, fibonacci_row(rows, i - 1, a)), <<>>, num_steps)

num_rows(trace) == Len(trace)

num_columns(trace) == Len(trace[1])

\* the interpolation points (step, value) of column col (0-based)
column_points(trace, col) ==
    Collected([k \in 1..Len(trace) |-> <<I(k - 1), trace[k][col + 1]>>], Len(trace))

(***************************************************************************)
(* prover.rs                                                               *)
(***************************************************************************)
\* extended_column with the points of the domain taken from the last to the first
extended_column_backwards(poly, eval_domain) ==
    Collected([i \in 1..size(eval_domain) |->
                  evaluate(poly, element(eval_domain, size(eval_domain) - i))],
              size(eval_domain))

\* one extended column: the interpolating polynomial evaluated on the domain
extended_column(poly, eval_domain) ==
    Collected([i \in 1..size(eval_domain) |-> evaluate(poly, element(eval_domain, i - 1))],
              size(eval_domain))

\* extend_trace: the low degree extension, one sequence of values per column
extend_trace(trace, prime, extension_factor) ==
    Let(new_linear(prime, num_rows(trace) * extension_factor),
        LAMBDA eval_domain :
            Collected([c \in 1..num_columns(trace) |->
                          extended_column(lagrange_interpolation(column_points(trace, c - 1)),
                                          eval_domain)],
                      num_columns(trace)))

\* the row-leaf hash: the hashes of the first `upto` values of a row folded
\* into an accumulator
row_leaf_hash(values, upto) ==
    ForEach(LAMBDA acc, i : hash_two_inputs(acc, element_hash(values[i])), Zero, upto)

\* the values of row i (0-based) of the extended trace, one per column
extended_row(extended_trace, i) ==
    Collected([c \in 1..Len(extended_trace) |-> extended_trace[c][i + 1]],
              Len(extended_trace))

\* the row-leaf hashes of the rows of the extended trace
row_leaf_hashes(extended_trace) ==
    Collected([i \in 1..Len(extended_trace[1]) |->
                  row_leaf_hash(extended_row(extended_trace, i - 1), Len(extended_trace))],
              Len(extended_trace[1]))

\* the residuals interpolated by create_fibonacci_constraint_poly: 0 at steps 0
\* and 1, F(n) - F(n-1) - F(n-2) read from the row itself from step 2 on
constraint_points(trace) ==
    Collected([k \in 1..Len(trace) |->
                  IF k <= 2 THEN <<I(k - 1), Zero>>
                  ELSE <<I(k - 1), Sub(Sub(trace[k][3], trace[k][2]), trace[k][1])>>],
              Len(trace))

create_fibonacci_constraint_poly(trace, prime) ==
    [poly   |-> lagrange_interpolation(constraint_points(trace)),
     domain |-> new_linear(prime, num_rows(trace))]

\* create_vanishing_polynomial with the factors (x + point): no negation
create_vanishing_polynomial_without_negation(domain) ==
    ForEach(LAMBDA acc, i :
                poly_multiply(acc, <<domain.points[i].value,
                                     new_fielded(One, domain.points[i].prime).value>>),
            Polynomial_new(<<One>>), Len(domain.points))

\* the product of (x - point) over the points of the domain
create_vanishing_polynomial(domain) ==
    ForEach(LAMBDA acc, i :
                poly_multiply(acc, <<negate(domain.points[i]).value,
                                     new_fielded(One, domain.points[i].prime).value>>),
            Polynomial_new(<<One>>), Len(domain.points))

\* create_quotient_polynomial without the comparison of the degrees
create_quotient_polynomial_without_degree_check(constraint_poly, vanishing_poly) ==
    IF /\ degree(constraint_poly) = 0
       /\ Len(constraint_poly) > 0
       /\ IsZero(constraint_poly[1])
    THEN Polynomial_new(<<Zero>>)
    ELSE div(constraint_poly, vanishing_poly).quotient

create_quotient_polynomial(constraint_poly, vanishing_poly) ==
    IF /\ degree(constraint_poly) = 0
       /\ Len(constraint_poly) > 0
       /\ IsZero(constraint_poly[1])
    THEN Polynomial_new(<<Zero>>)
    ELSE IF degree(constraint_poly) < degree(vanishing_poly)
    THEN Polynomial_new(<<Zero>>)
    ELSE div(constraint_poly, vanishing_poly).quotient

\* the FRI layers: eval_leaves folded once per beta, until one value is left
fri_fold(eval_leaves, betas) ==
    Loop(LAMBDA st : [i |-> st.i + 1,
                      layers |-> Append(st.layers,
                                        fold_once(st.layers[Len(st.layers)], betas[st.i + 1]))],
         LAMBDA st : st.i >= Len(betas) \/ (st.i > 0 /\ Len(st.layers[Len(st.layers)]) <= 1),
         [i |-> 0, layers |-> <<eval_leaves>>]).layers

\* SamplingData as prove_fibonacci leaves it
EmptySamplingData ==
    [sample_points     |-> <<>>,
     sample_values     |-> <<>>,
     constraint_values |-> <<>>,
     merkle_proofs     |-> <<>>]

\* fri_layers_of with the last column left as long as it is
fri_layers_of_unpadded(extended_trace, merkle, fri_betas) ==
    fri_fold(extended_trace[Len(extended_trace)], fri_betas)

\* the FRI part of prove_fibonacci: the last column, padded to the leaf count
\* of the tree, folded with the betas
fri_layers_of(extended_trace, merkle, fri_betas) ==
    fri_fold(pad_to(extended_trace[Len(extended_trace)], leaf_count(merkle), ZERO),
             fri_betas)

\* the proof assembled from the parts that prove_fibonacci computes
StarkProof(trace, prime, extended_trace, merkle, constraint, fri_betas) ==
    [trace_commitment |-> root(merkle)[1],
     trace_size       |-> num_rows(trace),
     field            |-> prime,
     eval_domain      |-> constraint.domain,
     sampling_data    |-> EmptySamplingData,
     fri_layers       |-> fri_layers_of(extended_trace, merkle, fri_betas),
     fri_betas        |-> fri_betas,
     composition_poly |-> constraint.poly,
     quotient_poly    |-> create_quotient_polynomial(
                              constraint.poly, create_vanishing_polynomial(constraint.domain))]

prove_fibonacci(trace, prime) ==
    Let(extend_trace(trace, prime, EXTENSION_FACTOR),
        LAMBDA extended_trace :
    Let(build_from_hashes(row_leaf_hashes(extended_trace)),
        LAMBDA merkle :
    Let2(create_fibonacci_constraint_poly(trace, prime),
         derive_fri_betas_from_commitment(root(merkle)[1], 2),
         LAMBDA constraint, fri_betas :
             StarkProof(trace, prime, extended_trace, merkle, constraint, fri_betas))))

\* the path of generate_merkle_proofs for one sample point: the proof of the
\* tree, an empty path where the tree has none
merkle_path(merkle, sample_point) ==
    LET found == get_merkle_proof(merkle, sample_point).value
    IN  IF found = None THEN <<>> ELSE found[1]

generate_merkle_proofs(extended_trace, sample_points) ==
    Let(build_from_hashes(row_leaf_hashes(extended_trace)),
        LAMBDA merkle :
            Collected([k \in 1..Len(sample_points) |-> merkle_path(merkle, sample_points[k])],
                      Len(sample_points)))

(***************************************************************************)
(* verifier.rs.  A check gives the boolean it returns, or panics.          *)
(***************************************************************************)
Panicked == [panic |-> TRUE, valid |-> FALSE]

Returned(valid) == [panic |-> FALSE, valid |-> valid]

\* the sample points at these positions are checked: zip stops at the end of
\* the shorter of sample_points and merkle_proofs
zipped(sampling_data) ==
    1..Min(Len(sampling_data.sample_points), Len(sampling_data.merkle_proofs))

\* a verifier that folds every element of the path, the root at its end too
merkle_proof_valid_through_root(proof, i) ==
    LET sample_values == proof.sampling_data.sample_values[i]
        merkle_proof  == proof.sampling_data.merkle_proofs[i]
        leaf_hash     == row_leaf_hash(sample_values, Len(sample_values))
    IN  /\ merkle_proof # <<>>
        /\ fold_siblings(leaf_hash, merkle_proof, Len(merkle_proof))
             = proof.trace_commitment

\* one round of the loop of verify_merkle_proofs: the path is not empty and
\* leads from the row-leaf hash of the sample values to the commitment
merkle_proof_valid(proof, i) ==
    LET sample_values == proof.sampling_data.sample_values[i]
        merkle_proof  == proof.sampling_data.merkle_proofs[i]
        leaf_hash     == row_leaf_hash(sample_values, Len(sample_values))
    IN  /\ merkle_proof # <<>>
        /\ fold_siblings(leaf_hash, merkle_proof, Len(merkle_proof) - 1)
             = proof.trace_commitment

verify_merkle_proofs(proof) ==
    IF \E i \in zipped(proof.sampling_data) : i > Len(proof.sampling_data.sample_values)
    THEN Panicked
    ELSE Returned(\A i \in zipped(proof.sampling_data) : merkle_proof_valid(proof, i))

\* building the extended domain or taking one of the sampled points from it
\* panics
sample_point_panics(sample_points, trace_size, prime) ==
    /\ sample_points # <<>>
    /\ \/ new_linear_panics(trace_size * EXTENSION_FACTOR)
       \/ \E i \in 1..Len(sample_points) :
             element_panics(new_linear(prime, trace_size * EXTENSION_FACTOR),
                            sample_points[i])

verify_fibonacci_constraints(sample_points, trace_size, prime, composition_poly) ==
    IF sample_point_panics(sample_points, trace_size, prime) THEN Panicked
    ELSE Let(new_linear(prime, trace_size * EXTENSION_FACTOR),
             LAMBDA extended_eval_domain :
                 Returned(\A i \in 1..Len(sample_points) :
                     is_zero(evaluate(composition_poly,
                                      element(extended_eval_domain, sample_points[i])))))

\* C(x) = Q(x) * Z_H(x) at one point
quotient_matches(composition_poly, quotient_poly, original_domain, point) ==
    evaluate(composition_poly, point)
      = multiply(evaluate(quotient_poly, point), evaluate_vanishing(original_domain, point))

verify_quotient_polynomial(sample_points, trace_size, prime, composition_poly, quotient_poly) ==
    IF new_linear_panics(trace_size) \/ sample_point_panics(sample_points, trace_size, prime)
    THEN Panicked
    ELSE Let2(new_linear(prime, trace_size),
              new_linear(prime, trace_size * EXTENSION_FACTOR),
              LAMBDA original_domain, extended_eval_domain :
                  Returned(\A i \in 1..Len(sample_points) :
                      quotient_matches(composition_poly, quotient_poly, original_domain,
                                       element(extended_eval_domain, sample_points[i]))))

verify_random_sampling(proof) ==
    Let2(verify_fibonacci_constraints(proof.sampling_data.sample_points,
             proof.trace_size, proof.field, proof.composition_poly),
         verify_quotient_polynomial(proof.sampling_data.sample_points,
             proof.trace_size, proof.field, proof.composition_poly, proof.quotient_poly),
         LAMBDA constraint_valid, quotient_valid :
             IF constraint_valid.panic \/ quotient_valid.panic THEN Panicked
             ELSE Returned(constraint_valid.valid /\ quotient_valid.valid))

\* a verifier without the early return on empty sample_points
verify_proof_without_sampling_check(proof) ==
    Let2(verify_merkle_proofs(proof), verify_random_sampling(proof),
         LAMBDA merkle_valid, constraint_valid :
             IF merkle_valid.panic \/ constraint_valid.panic THEN Panicked
             ELSE Returned(merkle_valid.valid /\ constraint_valid.valid))

verify_proof(proof) ==
    IF proof.sampling_data.sample_points = <<>> THEN Returned(FALSE)
    ELSE Let2(verify_merkle_proofs(proof), verify_random_sampling(proof),
              LAMBDA merkle_valid, constraint_valid :
                  IF merkle_valid.panic \/ constraint_valid.panic THEN Panicked
                  ELSE Returned(merkle_valid.valid /\ constraint_valid.valid))

(***************************************************************************)
(* The state: a Merkle tree with the list it was last built from and the   *)
(* outcome of the last proof lookup on it; and one run of the pipeline,    *)
(* the trace, the proof as it goes from the prover to the verifier, and    *)
(* the verdict of the verifier; the last call of a function of the field   *)
(* and polynomial layers with what it returned; and two transcripts, each  *)
(* with the calls made on it and the challenges it returned.               *)
(***************************************************************************)
VARIABLES tree, elements, built, lookup, trace, proof, stage, verdict, history,
          call, transcripts

vars == <<tree, elements, built, lookup, trace, proof, stage, verdict, history,
          call, transcripts>>

merkle_vars == <<tree, elements, built, lookup>>

pipeline_vars == <<trace, proof, stage, verdict, history>>

calc_vars == <<call, transcripts>>

NoLookup == [index |-> -1, panic |-> FALSE, value |-> None]

\* what was done to the trace and the proof so far: the cell of the trace that
\* was changed, where the sample points came from, how the proof was altered
NoHistory == [tampered |-> <<>>, sampling |-> "none", forgery |-> "none"]

\* no function of the field and polynomial layers was called yet
NoCall == [op |-> "none", args |-> <<>>, panic |-> "none", value |-> <<>>]

\* a transcript right after Transcript::new(), nothing called on it
NewTranscript == [state |-> Transcript_new, log |-> <<>>]

Init ==
    /\ tree = MerkleTree_new
    /\ elements = <<>>
    /\ built = FALSE
    /\ lookup = NoLookup
    /\ trace = <<>>
    /\ proof = <<>>
    /\ stage = "start"
    /\ verdict = "none"
    /\ history = NoHistory
    /\ call = NoCall
    /\ transcripts = <<NewTranscript, NewTranscript>>

(***************************************************************************)
(* The Merkle tree as a state machine.                                     *)
(***************************************************************************)
MaxLeaves == 3

MaxIndex == 5

LeafValues == {3, 30}

RECURSIVE SeqsOfLen(_, _)
SeqsOfLen(S, n) ==
    IF n = 0 THEN {<<>>}
    ELSE {Append(sq, v) : sq \in SeqsOfLen(S, n - 1), v \in S}

LeafLists == UNION {SeqsOfLen({new(I(v)) : v \in LeafValues}, n) : n \in 0..MaxLeaves}

Build(elems) ==
    /\ tree' = build(elems)
    /\ elements' = elems
    /\ built' = TRUE
    /\ lookup' = NoLookup
    /\ UNCHANGED <<pipeline_vars, calc_vars>>

GetMerkleProof(index) ==
    /\ lookup' = [index |-> index] @@ get_merkle_proof(tree, index)
    /\ UNCHANGED <<tree, elements, built>>
    /\ UNCHANGED <<pipeline_vars, calc_vars>>

MerkleNext ==
    \/ \E elems \in LeafLists : Build(elems)
    \/ \E index \in 0..MaxIndex : GetMerkleProof(index)

SpecMerkle == Init /\ [][MerkleNext]_vars

(***************************************************************************)
(* The pipeline as a state machine: a trace is proved, the proof is        *)
(* populated with sampling data, possibly altered on its way, and          *)
(* verified.                                                               *)
(***************************************************************************)
MaxSteps == 3

NumSamples == 2

\* sample points a prover may pick by itself
ChosenIndices == {1}

\* the trace with the value at (row, col) replaced by a different one
tampered(rows, row, col) == [rows EXCEPT ![row][col] = Add(@, One)]

\* the sampling step of test_fibonacci_prover and of main: the values of the
\* extended rows at the sample points and their Merkle paths are put into
\* the proof
populate(pr, rows, sample_points) ==
    Let(extend_trace(rows, pr.field, EXTENSION_FACTOR),
        LAMBDA extended_trace :
            [pr EXCEPT !.sampling_data =
                [sample_points     |-> sample_points,
                 sample_values     |-> Collected([k \in 1..Len(sample_points) |->
                                           extended_row(extended_trace, sample_points[k])],
                                           Len(sample_points)),
                 constraint_values |-> <<>>,
                 merkle_proofs     |-> generate_merkle_proofs(extended_trace, sample_points)]])

\* what verify_proof does with a proof: it returns true or false, or panics
outcome(pr) ==
    Let(verify_proof(pr),
        LAMBDA result : IF result.panic THEN "panicked"
                        ELSE IF result.valid THEN "accepted" ELSE "rejected")

\* prove_fibonacci on the trace of generate_fibonacci_trace(num_steps, 1, 1)
Prove(num_steps) ==
    /\ stage = "start"
    /\ trace' = generate_fibonacci_trace(num_steps, One)
    /\ proof' = prove_fibonacci(trace', DEFAULT_FIELD_SIZE)
    /\ stage' = "created"
    /\ UNCHANGED <<verdict, history>>
    /\ UNCHANGED <<merkle_vars, calc_vars>>

\* prove_fibonacci on that trace with one value changed
ProveTampered(num_steps, row, col) ==
    /\ stage = "start"
    /\ trace' = tampered(generate_fibonacci_trace(num_steps, One), row, col)
    /\ proof' = prove_fibonacci(trace', DEFAULT_FIELD_SIZE)
    /\ stage' = "created"
    /\ history' = [history EXCEPT !.tampered = <<row, col>>]
    /\ UNCHANGED verdict
    /\ UNCHANGED <<merkle_vars, calc_vars>>

\* sampling as in test_fibonacci_prover: the points of generate_sample_points
PopulateGenerated ==
    /\ stage = "created"
    /\ history.forgery = "none"
    /\ proof' = populate(proof, trace,
                         generate_sample_points(proof.trace_size * EXTENSION_FACTOR,
                                                NumSamples))
    /\ stage' = "populated"
    /\ history' = [history EXCEPT !.sampling = "generated"]
    /\ UNCHANGED <<trace, verdict>>
    /\ UNCHANGED <<merkle_vars, calc_vars>>

\* sampling as in main: the points derived from the commitment
PopulateDerived ==
    /\ stage = "created"
    /\ history.forgery = "none"
    /\ proof' = populate(proof, trace,
                         derive_sample_points_from_commitment(
                             proof.trace_commitment,
                             proof.trace_size * EXTENSION_FACTOR, NumSamples))
    /\ stage' = "populated"
    /\ history' = [history EXCEPT !.sampling = "derived"]
    /\ UNCHANGED <<trace, verdict>>
    /\ UNCHANGED <<merkle_vars, calc_vars>>

\* sampling at a point the prover picks
PopulateChosen(index) ==
    /\ stage = "created"
    /\ history.forgery = "none"
    /\ proof' = populate(proof, trace, <<index>>)
    /\ stage' = "populated"
    /\ history' = [history EXCEPT !.sampling = "chosen"]
    /\ UNCHANGED <<trace, verdict>>
    /\ UNCHANGED <<merkle_vars, calc_vars>>

\* The proof is altered on its way to the verifier, once.  Only proofs of
\* untampered traces are altered.
Alterable == stage = "populated" /\ history.tampered = <<>> /\ history.forgery = "none"

Altered(pr, forgery) ==
    /\ proof' = pr
    /\ history' = [history EXCEPT !.forgery = forgery]
    /\ UNCHANGED <<trace, stage, verdict>>
    /\ UNCHANGED <<merkle_vars, calc_vars>>

\* merkle_proofs keeps its first `kept` paths only
DropMerkleProofs(kept) ==
    /\ Alterable
    /\ kept < Len(proof.sampling_data.merkle_proofs)
    /\ Altered([proof EXCEPT !.sampling_data.merkle_proofs = SubSeq(@, 1, kept)],
               "dropped_merkle_proofs")

\* the path of sample i is replaced by an empty one
EmptyMerklePath(i) ==
    /\ Alterable
    /\ i <= Len(proof.sampling_data.merkle_proofs)
    /\ Altered([proof EXCEPT !.sampling_data.merkle_proofs[i] = <<>>], "empty_merkle_path")

\* the path of sample i loses its first sibling
ShortenMerklePath(i) ==
    /\ Alterable
    /\ i <= Len(proof.sampling_data.merkle_proofs)
    /\ Altered([proof EXCEPT !.sampling_data.merkle_proofs[i] = Tail(@)],
               "shortened_merkle_path")

\* sample_values keeps its first `kept` rows only
DropSampleValues(kept) ==
    /\ Alterable
    /\ kept < Len(proof.sampling_data.sample_values)
    /\ Altered([proof EXCEPT !.sampling_data.sample_values = SubSeq(@, 1, kept)],
               "dropped_sample_values")

\* sample point i is moved past the end of the extended domain
MoveSamplePointOut(i) ==
    /\ Alterable
    /\ i <= Len(proof.sampling_data.sample_points)
    /\ Altered([proof EXCEPT !.sampling_data.sample_points[i] =
                                 proof.trace_size * EXTENSION_FACTOR],
               "sample_point_out_of_range")

\* the sample points are taken out again
ClearSamplePoints ==
    /\ Alterable
    /\ Altered([proof EXCEPT !.sampling_data.sample_points = <<>>], "cleared_sample_points")

\* trace_size is set to 0, in a proof with or without sampling data
ZeroTraceSize ==
    /\ stage \in {"created", "populated"}
    /\ history.tampered = <<>>
    /\ history.forgery = "none"
    /\ Altered([proof EXCEPT !.trace_size = 0], "zero_trace_size")

\* rows a prover may answer a sample with in place of the sampled one
OtherRows == {0, 2}

\* sample i is answered with the values and the authentication path of the
\* committed row `row`, which is not the row sample_points[i]
AnswerWithOtherRow(i, row) ==
    /\ Alterable
    /\ i <= Len(proof.sampling_data.sample_points)
    /\ row # proof.sampling_data.sample_points[i]
    /\ Let(extend_trace(trace, proof.field, EXTENSION_FACTOR),
           LAMBDA extended_trace :
               Altered([proof EXCEPT
                           !.sampling_data.sample_values[i] =
                               extended_row(extended_trace, row),
                           !.sampling_data.merkle_proofs[i] =
                               generate_merkle_proofs(extended_trace, <<row>>)[1]],
                       "other_row"))

\* verify_proof on the proof as it is
Verify ==
    /\ stage \in {"created", "populated"}
    /\ verdict' = outcome(proof)
    /\ stage' = "verified"
    /\ UNCHANGED <<trace, proof, history>>
    /\ UNCHANGED <<merkle_vars, calc_vars>>

Next ==
    \/ \E num_steps \in 2..MaxSteps : Prove(num_steps)
    \/ \E num_steps \in 2..MaxSteps : \E row \in 1..num_steps : \E col \in 1..3 :
          ProveTampered(num_steps, row, col)
    \/ PopulateGenerated
    \/ PopulateDerived
    \/ \E index \in ChosenIndices : PopulateChosen(index)
    \/ \E kept \in 0..(NumSamples - 1) : DropMerkleProofs(kept)
    \/ \E i \in 1..NumSamples : EmptyMerklePath(i)
    \/ \E i \in 1..NumSamples : ShortenMerklePath(i)
    \/ \E kept \in 0..(NumSamples - 1) : DropSampleValues(kept)
    \/ \E i \in 1..NumSamples : MoveSamplePointOut(i)
    \/ ClearSamplePoints
    \/ ZeroTraceSize
    \/ \E i \in 1..NumSamples : \E row \in OtherRows : AnswerWithOtherRow(i, row)
    \/ Verify

Spec == Init /\ [][Next]_vars

(***************************************************************************)
(* The polynomial layer as a state machine: each step is one call of a     *)
(* function on polynomials built by Polynomial::new, and the state keeps   *)
(* the call with what it returned.  A run makes one call.                  *)
(***************************************************************************)
MaxDividendLen == 3

MaxDivisorLen == 2

\* the raw coefficients handed to Polynomial::new
Coefficients == {0, 1, -2}

PolysUpTo(n) == UNION {SeqsOfLen({I(c) : c \in Coefficients}, k) : k \in 0..n}

\* coefficient vectors of multiples of the prime: zero in the field
MultiplesOfPrime ==
    {<<DEFAULT_FIELD_SIZE>>, <<Zero, Neg(DEFAULT_FIELD_SIZE)>>}

Called(op, args, panic, value) ==
    [op |-> op, args |-> args, panic |-> panic, value |-> value]

\* a.div(&b) for a = Polynomial::new(dividend), b = Polynomial::new(divisor)
PolyDiv(dividend, divisor) ==
    /\ call.op = "none"
    /\ call' = Let2(Polynomial_new(dividend), Polynomial_new(divisor),
                    LAMBDA a, b :
                        IF div_panics(a, b)
                        THEN Called("div", <<a, b>>, div_panic_message(a, b), <<>>)
                        ELSE Called("div", <<a, b>>, "none", div(a, b)))
    /\ UNCHANGED <<merkle_vars, pipeline_vars, transcripts>>

MaxPoints == 3

\* the points handed to lagrange_interpolation; two of them share their x
PointPool == {<<0, -2>>, <<1, 6>>, <<-5, 48>>, <<2, 4>>, <<1, 2>>}

\* the lists of up to n different points of the pool, as pairs of i128
PointLists(n) ==
    {Collected([k \in 1..Len(l) |-> <<I(l[k][1]), I(l[k][2])>>], Len(l)) :
        l \in {m \in UNION {SeqsOfLen(PointPool, k) : k \in 0..n} :
                  \A i, j \in 1..Len(m) : i # j => m[i] # m[j]}}

\* lagrange_interpolation(&points)
PolyInterpolate(points) ==
    /\ call.op = "none"
    /\ call' = Called("lagrange_interpolation", <<points>>, "none",
                      lagrange_interpolation(points))
    /\ UNCHANGED <<merkle_vars, pipeline_vars, transcripts>>

MaxDomainSize == 6

MaxFieldPoint == 6

\* the primes of the fields of the calls: two small ones and the default
Primes == {I(5), I(7), DEFAULT_FIELD_SIZE}

\* the elements 0 .. MaxFieldPoint and p - 1 of the field of the prime
FieldPoints(prime) ==
    {new_fielded(I(v), prime) : v \in {w \in 0..MaxFieldPoint : Cmp(I(w), prime) < 0}}
        \cup {new_fielded(Sub(prime, One), prime)}

\* Z_H at x, both ways: domain.evaluate_vanishing(x), and
\* create_vanishing_polynomial(&domain).evaluate(x), for the domain
\* EvaluationDomain::new_linear(field, n) with 1 <= n < p
PolyVanishing(prime, n, x) ==
    /\ call.op = "none"
    /\ ~new_linear_panics(n)
    /\ Cmp(I(n), prime) < 0
    /\ call' = Let(new_linear(prime, n),
                   LAMBDA domain :
                       Called("vanishing", <<domain, x>>, "none",
                              [at      |-> evaluate_vanishing(domain, x),
                               poly_at |-> evaluate(create_vanishing_polynomial(domain), x)]))
    /\ UNCHANGED <<merkle_vars, pipeline_vars, transcripts>>

MaxSummandLen == 2

\* a.add(&b) for a = Polynomial::new(left), b = Polynomial::new(right)
PolyAdd(left, right) ==
    /\ call.op = "none"
    /\ call' = Let2(Polynomial_new(left), Polynomial_new(right),
                    LAMBDA a, b : Called("add", <<a, b>>, "none", poly_add(a, b)))
    /\ UNCHANGED <<merkle_vars, pipeline_vars, transcripts>>

\* a.sub(&b) for a = Polynomial::new(left), b = Polynomial::new(right)
PolySub(left, right) ==
    /\ call.op = "none"
    /\ call' = Let2(Polynomial_new(left), Polynomial_new(right),
                    LAMBDA a, b : Called("sub", <<a, b>>, "none", poly_sub(a, b)))
    /\ UNCHANGED <<merkle_vars, pipeline_vars, transcripts>>

PolyNext ==
    \/ \E left, right \in PolysUpTo(MaxSummandLen) : PolyAdd(left, right)
    \/ \E left, right \in PolysUpTo(MaxSummandLen) : PolySub(left, right)
    \/ \E prime \in Primes : \E n \in 1..MaxDomainSize : \E x \in FieldPoints(prime) :
          PolyVanishing(prime, n, x)
    \/ \E dividend \in PolysUpTo(MaxDividendLen) :
          \E divisor \in PolysUpTo(MaxDivisorLen) \cup MultiplesOfPrime :
              PolyDiv(dividend, divisor)
    \/ \E points \in PointLists(MaxPoints) : PolyInterpolate(points)

SpecPoly == Init /\ [][PolyNext]_vars

(***************************************************************************)
(* The field layer as a state machine: each step is one call of a          *)
(* constructor or an operation of FiniteFieldElement, on operands built by *)
(* new_fielded.  A run makes one call.                                     *)
(***************************************************************************)
MaxFieldValue == 7

MaxExponent == 4

\* the primes of FiniteField::new
FieldPrimes == {I(2), I(5), I(7)}

\* the i128 inputs of the constructors: negative values and multiples of the
\* primes are among them
FieldValues == {I(v) : v \in (0 - MaxFieldValue)..MaxFieldValue}

\* inputs around the multiples of the default prime
DefaultFieldValues ==
    FieldValues \cup {DEFAULT_FIELD_SIZE, Neg(DEFAULT_FIELD_SIZE),
                      Add(DEFAULT_FIELD_SIZE, I(3)), Sub(Neg(DEFAULT_FIELD_SIZE), I(3))}

\* the operands: new_fielded(v, FiniteField::new(p))
FieldElements == {new_fielded(v, prime) : v \in FieldValues, prime \in FieldPrimes}

\* FiniteFieldElement::new(value)
FieldNew(value) ==
    /\ call.op = "none"
    /\ call' = Called("new", <<value>>, "none", new(value))
    /\ UNCHANGED <<merkle_vars, pipeline_vars, transcripts>>

\* FiniteFieldElement::new_fielded(value, FiniteField::new(prime))
FieldNewFielded(value, prime) ==
    /\ call.op = "none"
    /\ call' = Called("new_fielded", <<value, prime>>, "none", new_fielded(value, prime))
    /\ UNCHANGED <<merkle_vars, pipeline_vars, transcripts>>

\* FiniteField::new(prime).element(value)
FieldElement(prime, value) ==
    /\ call.op = "none"
    /\ call' = Called("element", <<value, prime>>, "none", new_fielded(value, prime))
    /\ UNCHANGED <<merkle_vars, pipeline_vars, transcripts>>

\* a == b for a = new_fielded(v, f), b = new_fielded(w, f)
FieldEq(v, w, prime) ==
    /\ call.op = "none"
    /\ call' = Called("eq", <<v, w, prime>>, "none",
                      eq(new_fielded(v, prime), new_fielded(w, prime)))
    /\ UNCHANGED <<merkle_vars, pipeline_vars, transcripts>>

\* a.add(b)
FieldAdd(a, b) ==
    /\ call.op = "none"
    /\ call' = Called("add", <<a, b>>, "none", add(a, b))
    /\ UNCHANGED <<merkle_vars, pipeline_vars, transcripts>>

\* a.subtract(b)
FieldSubtract(a, b) ==
    /\ call.op = "none"
    /\ call' = Called("subtract", <<a, b>>, "none", subtract(a, b))
    /\ UNCHANGED <<merkle_vars, pipeline_vars, transcripts>>

\* a.multiply(b): the assert_eq! on the primes comes first
FieldMultiply(a, b) ==
    /\ call.op = "none"
    /\ call' = IF multiply_panics(a, b)
               THEN Called("multiply", <<a, b>>, "assertion failed", <<>>)
               ELSE Called("multiply", <<a, b>>, "none", multiply(a, b))
    /\ UNCHANGED <<merkle_vars, pipeline_vars, transcripts>>

\* a.negate()
FieldNegate(a) ==
    /\ call.op = "none"
    /\ call' = Called("negate", <<a>>, "none", negate(a))
    /\ UNCHANGED <<merkle_vars, pipeline_vars, transcripts>>

\* a.pow(exponent)
FieldPow(a, exponent) ==
    /\ call.op = "none"
    /\ call' = Called("pow", <<a, I(exponent)>>, "none", pow(a, I(exponent)))
    /\ UNCHANGED <<merkle_vars, pipeline_vars, transcripts>>

\* a.inverse()
FieldInverse(a) ==
    /\ call.op = "none"
    /\ call' = Called("inverse", <<a>>, "none", inverse(a))
    /\ UNCHANGED <<merkle_vars, pipeline_vars, transcripts>>

FieldNext ==
    \/ \E value \in DefaultFieldValues : FieldNew(value)
    \/ \E value \in FieldValues : \E prime \in FieldPrimes : FieldNewFielded(value, prime)
    \/ \E value \in FieldValues : \E prime \in FieldPrimes : FieldElement(prime, value)
    \/ \E v, w \in FieldValues : \E prime \in FieldPrimes : FieldEq(v, w, prime)
    \/ \E a, b \in FieldElements : FieldAdd(a, b)
    \/ \E a, b \in FieldElements : FieldSubtract(a, b)
    \/ \E a, b \in FieldElements : FieldMultiply(a, b)
    \/ \E a \in FieldElements : FieldNegate(a)
    \/ \E a \in FieldElements : \E exponent \in 0..MaxExponent : FieldPow(a, exponent)
    \/ \E a \in FieldElements \cup {new(v) : v \in DefaultFieldValues} : FieldInverse(a)

SpecField == Init /\ [][FieldNext]_vars

(***************************************************************************)
(* Two transcripts, each started with Transcript::new() and driven on its  *)
(* own.  A transcript keeps, next to its state, the log of the calls made  *)
(* on it with what they returned.                                          *)
(***************************************************************************)
MaxCalls == 2

\* the values of absorb_i128
AbsorbedValues == {I(42), I(-1)}

\* the slices of absorb_bytes: b"hello", and 16 bytes, one more than a chunk
AbsorbedBytes ==
    {<<104, 101, 108, 108, 111>>,
     <<255, 1, 2, 3, 4, 5, 6, 7, 8, 9, 10, 11, 12, 13, 14, 15>>}

\* the primes of the fields of challenge
ChallengePrimes == {I(5), DEFAULT_FIELD_SIZE}

Logged(op, arg, result) == [op |-> op, arg |-> arg, result |-> result]

\* transcript t after a call that left it in `state`
Driven(t, state, entry) ==
    [transcripts EXCEPT ![t] = [state |-> state, log |-> Append(@.log, entry)]]

\* t.absorb_i128(value)
TranscriptAbsorb(t, value) ==
    /\ Len(transcripts[t].log) < MaxCalls
    /\ transcripts' = Driven(t, absorb_i128(transcripts[t].state, value),
                             Logged("absorb_i128", value, <<>>))
    /\ UNCHANGED <<merkle_vars, pipeline_vars, call>>

\* t.absorb_bytes(bytes)
TranscriptAbsorbBytes(t, bytes) ==
    /\ Len(transcripts[t].log) < MaxCalls
    /\ transcripts' = Driven(t, absorb_bytes(transcripts[t].state, bytes),
                             Logged("absorb_bytes", bytes, <<>>))
    /\ UNCHANGED <<merkle_vars, pipeline_vars, call>>

\* t.challenge(FiniteField::new(prime)): the state moves on and the challenge
\* is returned
TranscriptChallenge(t, prime) ==
    /\ Len(transcripts[t].log) < MaxCalls
    /\ transcripts' = Driven(t, challenge_state(transcripts[t].state),
                             Logged("challenge", prime,
                                    challenge(transcripts[t].state, prime)))
    /\ UNCHANGED <<merkle_vars, pipeline_vars, call>>

TranscriptNext ==
    \/ \E t \in 1..2 : \E value \in AbsorbedValues : TranscriptAbsorb(t, value)
    \/ \E t \in 1..2 : \E bytes \in AbsorbedBytes : TranscriptAbsorbBytes(t, bytes)
    \/ \E t \in 1..2 : \E prime \in ChallengePrimes : TranscriptChallenge(t, prime)

SpecTranscript == Init /\ [][TranscriptNext]_vars

(***************************************************************************)
(* The folding of fri.rs as a state machine: each step is one call of      *)
(* fold_once or fold_until on a vector of elements of the default field.   *)
(* A run makes one call.                                                   *)
(***************************************************************************)
MaxFriLen == 12

MaxBetas == 3

MaxTargetLen == 5

\* the vectors of the calls: values[i] = i * a + b, as the tests build them
FriPatterns == {<<7, 1>>, <<1, 0>>}

FriValues(n, pattern) ==
    Collected([i \in 1..n |-> new(I((i - 1) * pattern[1] + pattern[2]))], n)

\* the folding challenges
FriBetas == UNION {SeqsOfLen({new(I(5)), new(I(9))}, k) : k \in 0..MaxBetas}

\* fold_once(&values, beta)
FriFoldOnce(values, beta) ==
    /\ call.op = "none"
    /\ call' = IF fold_once_panics(values)
               THEN Called("fold_once", <<values, beta>>,
                           fold_once_panic_message(values), <<>>)
               ELSE Called("fold_once", <<values, beta>>, "none", fold_once(values, beta))
    /\ UNCHANGED <<merkle_vars, pipeline_vars, transcripts>>

\* fold_until(&values, &betas, target_len)
FriFoldUntil(values, betas, target_len) ==
    /\ call.op = "none"
    /\ call' = Let(fold_until(values, betas, target_len),
                   LAMBDA res : Called("fold_until", <<values, betas, target_len>>,
                                       res.panic, res.value))
    /\ UNCHANGED <<merkle_vars, pipeline_vars, transcripts>>

FriNext ==
    \/ \E n \in 0..MaxFriLen : \E pattern \in FriPatterns :
          \E beta \in {new(I(3)), new(I(5))} : FriFoldOnce(FriValues(n, pattern), beta)
    \/ \E n \in 0..MaxFriLen : \E pattern \in FriPatterns : \E betas \in FriBetas :
          \E target_len \in 0..MaxTargetLen :
              FriFoldUntil(FriValues(n, pattern), betas, target_len)

SpecFri == Init /\ [][FriNext]_vars

(***************************************************************************)
(* The steps of the prover as a state machine: each step is one call of    *)
(* extend_trace or of create_fibonacci_constraint_poly on a trace built by *)
(* Trace::new, over the default field.  A run makes one call.              *)
(***************************************************************************)
MaxRows == 3

MaxFactor == 3

\* the values of the cells of a trace
TraceCells == {I(1), I(-2)}

\* the traces of `columns` columns and up to `rows` rows over TraceCells
TracesOf(rows, columns) ==
    UNION {SeqsOfLen(SeqsOfLen(TraceCells, columns), r) : r \in 1..rows}

\* the traces handed to extend_trace: one column, two columns, and the
\* three-column traces of generate_fibonacci_trace
ExtendedTraces ==
    TracesOf(MaxRows, 1) \cup TracesOf(MaxRows - 1, 2)
        \cup {generate_fibonacci_trace(r, One) : r \in 1..MaxRows}

\* the three-column traces handed to create_fibonacci_constraint_poly: those
\* of generate_fibonacci_trace, and those with one cell changed
ConstrainedTraces ==
    UNION {{generate_fibonacci_trace(r, I(a))}
               \cup {tampered(generate_fibonacci_trace(r, I(a)), row, col) :
                        row \in 1..r, col \in 1..3} :
           r \in 1..MaxRows, a \in 1..2}

\* extend_trace(&trace, field, extension_factor)
ProverExtendTrace(rows, extension_factor) ==
    /\ call.op = "none"
    /\ call' = IF new_linear_panics(num_rows(rows) * extension_factor)
               THEN Called("extend_trace", <<rows, extension_factor>>,
                           "assertion failed", <<>>)
               ELSE Called("extend_trace", <<rows, extension_factor>>, "none",
                           extend_trace(rows, DEFAULT_FIELD_SIZE, extension_factor))
    /\ UNCHANGED <<merkle_vars, pipeline_vars, transcripts>>

\* create_fibonacci_constraint_poly(&trace, field)
ProverConstraintPoly(rows) ==
    /\ call.op = "none"
    /\ call' = Called("create_fibonacci_constraint_poly", <<rows>>, "none",
                      create_fibonacci_constraint_poly(rows, DEFAULT_FIELD_SIZE))
    /\ UNCHANGED <<merkle_vars, pipeline_vars, transcripts>>

ProverNext ==
    \/ \E rows \in ExtendedTraces : \E extension_factor \in 0..MaxFactor :
          ProverExtendTrace(rows, extension_factor)
    \/ \E rows \in ConstrainedTraces : ProverConstraintPoly(rows)

SpecProver == Init /\ [][ProverNext]_vars

(***************************************************************************)
(* The derivation of the sample points as a state machine: each step is    *)
(* one call of derive_sample_points_from_commitment for a commitment and   *)
(* the leaf count of the tree over the extended rows of a trace.  A run    *)
(* makes one call.                                                         *)
(***************************************************************************)
MaxTraceSize == 4

MaxCommitment == 12

MaxDerived == 2

Commitments == {I(c) : c \in (0 - MaxCommitment)..MaxCommitment}

\* tree.leaf_count() of the tree that prove_fibonacci builds over the rows of
\* the extended trace of a trace of trace_size rows
committed_leaf_count(trace_size) ==
    leaf_count(build_from_hashes([i \in 1..(trace_size * EXTENSION_FACTOR) |-> I(i)]))

\* derive_sample_points_from_commitment(commitment, tree.leaf_count(), num_samples)
DeriveSamplePoints(commitment, trace_size, num_samples) ==
    /\ call.op = "none"
    /\ call' = Let(committed_leaf_count(trace_size),
                   LAMBDA count :
                       Called("derive_sample_points_from_commitment",
                              <<commitment, count, num_samples, trace_size>>, "none",
                              derive_sample_points_from_commitment(commitment, count,
                                                                   num_samples)))
    /\ UNCHANGED <<merkle_vars, pipeline_vars, transcripts>>

SamplingNext ==
    \E commitment \in Commitments : \E trace_size \in 1..MaxTraceSize :
        \E num_samples \in 1..MaxDerived :
            DeriveSamplePoints(commitment, trace_size, num_samples)

SpecSampling == Init /\ [][SamplingNext]_vars

(***************************************************************************)
(* The properties of the pipeline, on the states in which verify_proof has *)
(* returned or panicked.                                                   *)
(***************************************************************************)
Verified == stage = "verified"

Honest == history.tampered = <<>> /\ history.forgery = "none"

\* C1: the proof of a trace of generate_fibonacci_trace, populated with the
\* sampled indices, the rows of the extended trace at them and the paths of
\* generate_merkle_proofs, is accepted by verify_proof.
C1_Completeness ==
    (Verified /\ Honest /\ history.sampling # "none") => verdict = "accepted"

\* C1 witness: the proof of the 3-row trace, populated at the points of
\* generate_sample_points as in test_fibonacci_prover, was accepted
C1_Witness ==
    /\ Verified /\ Honest
    /\ history.sampling = "generated"
    /\ Len(trace) = 3
    /\ Len(proof.sampling_data.merkle_proofs) = NumSamples
    /\ verdict = "accepted"

\* C2: when one value of the trace (any row, any column) was replaced by a
\* different one before proving, and the sampling data was populated honestly
\* from the tampered trace, verify_proof returns false.
C2_SingleFlipRejected ==
    (Verified /\ history.tampered # <<>> /\ history.sampling \in {"generated", "derived"})
    => verdict = "rejected"

\* C3: verify_proof returns false for every proof whose sample_points is
\* empty: the proof as prove_fibonacci returns it, of an honest or a tampered
\* trace, with trace_size as it was or set to 0, and a populated proof whose
\* sample points were taken out again.
C3_CreatedRejected ==
    (Verified /\ proof.sampling_data.sample_points = <<>>) => verdict = "rejected"

\* C3 witness: the proof of the 3-row trace was verified as prove_fibonacci
\* returned it, and was rejected
C3_Witness ==
    /\ Verified /\ Honest
    /\ history.sampling = "none"
    /\ Len(trace) = 3
    /\ proof.sampling_data.sample_points = <<>>
    /\ proof.fri_layers # <<>>
    /\ verdict = "rejected"

\* a sampled index has no authentication path: merkle_proofs is shorter than
\* sample_points, or one of its paths is empty
path_missing(sampling_data) ==
    \/ Len(sampling_data.merkle_proofs) < Len(sampling_data.sample_points)
    \/ \E i \in 1..Len(sampling_data.merkle_proofs) : sampling_data.merkle_proofs[i] = <<>>

\* C4: verify_proof returns false for every proof with non-empty sample_points
\* in which the path of a sampled index is missing, be it an empty path or a
\* merkle_proofs list that is empty or shorter than sample_points.
C4_MissingPathRejected ==
    (Verified /\ proof.sampling_data.sample_points # <<>>
       /\ path_missing(proof.sampling_data))
    => verdict = "rejected"

\* the indices the transcript derivation yields for the commitment of the
\* proof, as many as the proof has sample points, over `count` leaves
transcript_indices(pr, count) ==
    derive_sample_points_from_commitment(pr.trace_commitment, count,
                                         Len(pr.sampling_data.sample_points))

\* C5: verify_proof returns false for every proof whose sample_points differ
\* from the indices derived from its trace_commitment, the leaf count being
\* read as the size of the extended trace or as that size padded to a power of
\* two.
C5_SampleIndicesEnforced ==
    (/\ Verified /\ Honest
     /\ proof.sampling_data.sample_points # <<>>
     /\ proof.sampling_data.sample_points
          # transcript_indices(proof, proof.trace_size * EXTENSION_FACTOR)
     /\ proof.sampling_data.sample_points
          # transcript_indices(proof, next_power_of_two(proof.trace_size * EXTENSION_FACTOR)))
    => verdict = "rejected"

\* the proof has one of the shapes the verifier is to answer with false:
\* fewer sample_values than sample_points, a sample point past the extended
\* domain, no rows, or a path that lost an element
malformed ==
    \/ Len(proof.sampling_data.sample_values) < Len(proof.sampling_data.sample_points)
    \/ \E i \in 1..Len(proof.sampling_data.sample_points) :
          proof.sampling_data.sample_points[i] >= proof.trace_size * EXTENSION_FACTOR
    \/ proof.trace_size = 0
    \/ history.forgery = "shortened_merkle_path"

\* C6: verify_proof never panics, and returns false for a proof with
\* sample_values shorter than sample_points, a sample point
\* >= trace_size * EXTENSION_FACTOR, trace_size = 0 or a path of the wrong
\* length.
C6_NeverPanics ==
    Verified => /\ verdict # "panicked"
                /\ malformed => verdict = "rejected"

\* prove_fibonacci has returned the proof, and nothing has touched it since
Emitted == stage = "created" /\ history.forgery = "none"

\* n is a power of two
power_of_two(n) == n >= 1 /\ next_power_of_two(n) = n

\* the layer is the column followed by zeros, up to the leaf count of the tree
\* over the rows of the column
padded_column(layer, column) ==
    /\ Len(layer) = next_power_of_two(Len(column))
    /\ \A i \in 1..Len(layer) : layer[i] = IF i <= Len(column) THEN column[i] ELSE ZERO

\* the betas are the first two challenges of a transcript that absorbed the
\* commitment
derived_betas(betas, commitment) ==
    /\ Len(betas) = 2
    /\ betas[1] = challenge(absorb_i128(Transcript_new, commitment), DEFAULT_FIELD_SIZE)
    /\ betas[2] = challenge(challenge_state(absorb_i128(Transcript_new, commitment)),
                            DEFAULT_FIELD_SIZE)

extended_points == new_linear(proof.field, num_rows(trace) * EXTENSION_FACTOR).points

\* C28: in every proof that prove_fibonacci made, of a valid or a tampered
\* trace of r rows, the composition polynomial has a degree below
\* r = degree(Z_H), quotient_poly is the zero polynomial, and at every point
\* of the extended domain the identity C(x) = Q(x) * Z_H(x) of the verifier
\* holds exactly when C(x) = 0.
C28_QuotientIsZero ==
    stage # "start"
    => /\ degree(create_vanishing_polynomial(proof.eval_domain)) = num_rows(trace)
       /\ degree(proof.composition_poly) < num_rows(trace)
       /\ proof.quotient_poly = Polynomial_new(<<Zero>>)
       /\ \A i \in 1..Len(extended_points) :
              quotient_matches(proof.composition_poly, proof.quotient_poly,
                               new_linear(proof.field, num_rows(trace)), extended_points[i])
              <=> is_zero(evaluate(proof.composition_poly, extended_points[i]))

\* C28 witness: the proof of a tampered trace was verified; its composition
\* polynomial is not zero at a sampled point, where the identity fails, and
\* its quotient is the zero polynomial
C28_Witness ==
    /\ stage = "verified"
    /\ history.tampered # <<>>
    /\ proof.quotient_poly = <<Zero>>
    /\ \E k \in 1..Len(proof.sampling_data.sample_points) :
          LET x == extended_points[proof.sampling_data.sample_points[k] + 1]
          IN  /\ ~is_zero(evaluate(proof.composition_poly, x))
              /\ ~quotient_matches(proof.composition_poly, proof.quotient_poly,
                                   new_linear(proof.field, num_rows(trace)), x)

\* the row of the extended trace of the proved trace at `index`
committed_row(index) ==
    extended_row(extend_trace(trace, proof.field, EXTENSION_FACTOR), index)

\* sample k carries the values committed at the row sample_points[k]
answers_own_row(k) ==
    proof.sampling_data.sample_values[k]
        = committed_row(proof.sampling_data.sample_points[k])

\* C29: verify_merkle_proofs accepts sample k only if sample_values[k] are
\* the values committed at the extended row sample_points[k]; a proof that
\* answers an index with the values and the path of another committed row,
\* whose row-leaf hash differs, is rejected.
C29_PositionBinding ==
    (/\ stage \in {"populated", "verified"}
     /\ history.forgery \in {"none", "other_row"}
     /\ verify_merkle_proofs(proof) = Returned(TRUE))
    => \A k \in zipped(proof.sampling_data) :
          \/ answers_own_row(k)
          \/ row_leaf_hash(proof.sampling_data.sample_values[k], 3)
               = row_leaf_hash(committed_row(proof.sampling_data.sample_points[k]), 3)

\* C30: every index that derive_sample_points_from_commitment returns for a
\* commitment and the padded leaf count of the tree of a trace of r rows lies
\* in [0, leaf_count) and is below r * EXTENSION_FACTOR, so that the row of
\* the extended trace and the point of the extended domain at it exist.
C30_DerivedIndicesUsable ==
    call.op = "derive_sample_points_from_commitment"
    => \A k \in 1..Len(call.value) :
          /\ call.value[k] >= 0
          /\ call.value[k] < call.args[2]
          /\ call.value[k] < call.args[4] * EXTENSION_FACTOR
          /\ ~element_panics(new_linear(DEFAULT_FIELD_SIZE,
                                        call.args[4] * EXTENSION_FACTOR),
                             call.value[k])

(***************************************************************************)
(* Properties of the polynomial layer.                                     *)
(***************************************************************************)
\* the representative in [0, p) of an i128 value, p the default prime
canonical(v) ==
    Rem(Add(Rem(v, DEFAULT_FIELD_SIZE), DEFAULT_FIELD_SIZE), DEFAULT_FIELD_SIZE)

\* the coefficient of x^(k-1), 0 past the end of the vector
coefficient_at(poly, k) == IF k <= Len(poly) THEN canonical(poly[k]) ELSE Zero

\* p and q have the same coefficients in F_p
same_in_field(p, q) ==
    \A k \in 1..Max(Len(p), Len(q)) : coefficient_at(p, k) = coefficient_at(q, k)

\* the call returned, and a = q * b + r for its dividend, divisor and result
division_identity ==
    same_in_field(call.args[1],
                  poly_add(poly_multiply(call.value.quotient, call.args[2]),
                           call.value.remainder))

\* C11, amended: when div returns (the divisor is not zero and the dividend is
\* not of lower degree), a = q * b + r coefficient-wise in F_p, and the
\* remainder is empty (the zero polynomial) or of lower degree than b.
C11_DivisionPostcondition ==
    (call.op = "div" /\ call.panic = "none")
    => /\ division_identity
       /\ \/ call.value.remainder = <<>>
          \/ degree(call.value.remainder) < degree(call.args[2])

\* C11 as stated: a = q * b + r and degree(r) < degree(b), degree being
\* Polynomial::degree, which is 0 for the empty polynomial.
C11_DivisionStrictDegree ==
    (call.op = "div" /\ call.panic = "none")
    => /\ division_identity
       /\ degree(call.value.remainder) < degree(call.args[2])

\* C11 witness: a division by a divisor of degree 1 returned a quotient of
\* two coefficients and a remainder that is not zero
C11_Witness ==
    /\ call.op = "div" /\ call.panic = "none"
    /\ degree(call.args[2]) = 1
    /\ Len(call.value.quotient) = 2
    /\ call.value.remainder # <<>>

\* the x of the points are pairwise distinct mod p
distinct_x(points) ==
    \A i, j \in 1..Len(points) :
        i # j => canonical(points[i][1]) # canonical(points[j][1])

\* the polynomial takes the value y at x, for every point <<x, y>>
passes_through(poly, points) ==
    \A i \in 1..Len(points) :
        canonical(evaluate(poly, new(points[i][1])).value) = canonical(points[i][2])

\* the list with its first two points exchanged
swapped(points) ==
    IF Len(points) < 2 THEN points
    ELSE <<points[2], points[1]>> \o SubSeq(points, 3, Len(points))

\* the list with its first point moved to the end
rotated(points) ==
    IF Len(points) < 2 THEN points ELSE Tail(points) \o <<points[1]>>

\* C12: for n >= 1 points of pairwise distinct x mod p, negative coordinates
\* included, lagrange_interpolation returns a polynomial of at most n
\* coefficients that takes the value y_i mod p at every x_i, and the same
\* polynomial whatever the order of the points (the exchange of two points and
\* the rotation generate every order); for no point it returns the empty
\* polynomial.
C12_Interpolation ==
    call.op = "lagrange_interpolation"
    => /\ call.panic = "none"
       /\ call.args[1] = <<>> => call.value = <<>>
       /\ distinct_x(call.args[1])
          => /\ Len(call.value) <= Len(call.args[1])
             /\ passes_through(call.value, call.args[1])
             /\ same_in_field(call.value, lagrange_interpolation(swapped(call.args[1])))
             /\ same_in_field(call.value, lagrange_interpolation(rotated(call.args[1])))

\* C12 witness: three points of distinct x, one of them negative, were
\* interpolated by a polynomial of degree 2
C12_Witness ==
    /\ call.op = "lagrange_interpolation"
    /\ Len(call.args[1]) = 3
    /\ distinct_x(call.args[1])
    /\ \E i \in 1..3 : call.args[1][i][1].neg
    /\ degree(call.value) = 2

\* x is one of the points of the domain
in_domain(domain, x) == \E i \in 1..size(domain) : element(domain, i - 1) = x

C18_DivisionErrors ==
    call.op = "div"
    => /\ (\A k \in 1..Len(call.args[2]) : IsZero(canonical(call.args[2][k])))
          => call.panic = "Division by zero" /\ call.value = <<>>
       /\ degree(call.args[1]) < degree(call.args[2])
          => call.panic = "Invalid division" /\ call.value = <<>>

\* C18 witness: a dividend that is not empty was divided by a divisor of
\* higher degree, and div panicked
C18_Witness ==
    /\ call.op = "div"
    /\ call.args[1] # <<>>
    /\ degree(call.args[1]) < degree(call.args[2])
    /\ call.panic = "Invalid division"

\* C17: for all polynomials a and b, empty ones and pairs whose top
\* coefficients cancel included, add(a, b) and sub(a, b) each return a
\* coefficient vector of length max(len(a), len(b)).
C17_ResultLength ==
    (call.op \in {"add", "sub"} /\ call.panic = "none")
    => Len(call.value) = Max(Len(call.args[1]), Len(call.args[2]))

(***************************************************************************)
(* Properties of the field layer.                                          *)
(***************************************************************************)
\* 0 <= value < prime
in_range(e) == ~e.value.neg /\ Cmp(e.value, e.prime) < 0

\* v and w are congruent mod prime
congruent(v, w, prime) == IsZero(Rem(Sub(v, w), prime))

\* the call returned a field element
returned_element ==
    /\ call.op \in {"new", "new_fielded", "element", "add", "subtract", "multiply",
                    "negate", "pow", "inverse"}
    /\ call.panic = "none"

\* C14: for every prime p and every i128 input (negative values and multiples
\* of p included), the element built by new, new_fielded or
\* FiniteField::element, and every result of add, subtract, multiply, negate,
\* pow and inverse on such elements, has 0 <= value < p; and two elements
\* built over one prime from integers congruent mod p compare equal.
C14_CanonicalRange ==
    /\ returned_element => in_range(call.value)
    /\ (call.op = "eq" /\ congruent(call.args[1], call.args[2], call.args[3]))
       => call.value

\* the operand of the call is a non-zero element of F_p: 0 < value < p
nonzero_operand == in_range(call.args[1]) /\ ~is_zero(call.args[1])

\* C15: for every non-zero element a of F_p, p in FieldPrimes or the default
\* prime, a.multiply(a.inverse()) has value 1 and a.inverse() is a.pow(p - 2);
\* over p = 5, inverse(2) = 3, inverse(3) = 2 and inverse(4) = 4.
C15_Inverse ==
    (call.op = "inverse" /\ nonzero_operand)
    => /\ call.panic = "none"
       /\ ~multiply_panics(call.args[1], call.value)
       /\ multiply(call.args[1], call.value).value = One
       /\ call.value = pow(call.args[1], Sub(call.args[1].prime, I(2)))
       /\ call.args[1] = new_fielded(I(2), I(5)) => call.value.value = I(3)
       /\ call.args[1] = new_fielded(I(3), I(5)) => call.value.value = I(2)
       /\ call.args[1] = new_fielded(I(4), I(5)) => call.value.value = I(4)

\* C15 witness: the inverse of an element other than 1 and p - 1 was taken,
\* over a prime above 5
C15_Witness ==
    /\ call.op = "inverse" /\ nonzero_operand
    /\ Cmp(call.args[1].prime, I(5)) > 0
    /\ call.value # call.args[1]
    /\ multiply(call.args[1], call.value).value = One

\* C16: add, subtract and multiply on two elements of differing primes stop
\* with an assertion failure and return no value.
C16_MixedPrimesFailFast ==
    (/\ call.op \in {"add", "subtract", "multiply"}
     /\ call.args[1].prime # call.args[2].prime)
    => call.panic # "none"

(***************************************************************************)
(* Properties of the transcript.                                           *)
(***************************************************************************)
\* the first k calls of the two logs are the same calls with the same arguments
same_calls(k) ==
    \A m \in 1..k : /\ transcripts[1].log[m].op = transcripts[2].log[m].op
                     /\ transcripts[1].log[m].arg = transcripts[2].log[m].arg

\* the challenge calls of the logs
challenge_calls ==
    {<<t, k>> \in (1..2) \X (1..MaxCalls + 1) :
        /\ k <= Len(transcripts[t].log)
        /\ transcripts[t].log[k].op = "challenge"}

C20_ChallengeRange ==
    \A c \in challenge_calls : in_range(transcripts[c[1]].log[c[2]].result)

(***************************************************************************)
(* Properties of the steps of the prover.                                  *)
(***************************************************************************)
\* C22: for a trace of r rows and c columns and an extension factor k >= 1,
\* extend_trace returns c columns of r * k values each, and the i-th value of
\* column j, i < r, is the value trace[i][j] of the trace reduced mod p.
C22_ExtensionKeepsTrace ==
    (call.op = "extend_trace" /\ call.args[2] >= 1)
    => /\ call.panic = "none"
       /\ Len(call.value) = num_columns(call.args[1])
       /\ \A j \in 1..Len(call.value) :
              /\ Len(call.value[j]) = num_rows(call.args[1]) * call.args[2]
              /\ \A i \in 1..num_rows(call.args[1]) :
                     /\ call.value[j][i].prime = DEFAULT_FIELD_SIZE
                     /\ canonical(call.value[j][i].value) = canonical(call.args[1][i][j])

\* C22 witness: a trace of two columns with a negative value was extended by
\* the factor 3
C22_Witness ==
    /\ call.op = "extend_trace" /\ call.panic = "none"
    /\ call.args[2] = 3
    /\ num_columns(call.args[1]) = 2 /\ num_rows(call.args[1]) = 2
    /\ call.args[1][2][2].neg
    /\ Len(call.value[2]) = 6

\* the row satisfies the recurrence F(n) = F(n-1) + F(n-2)
row_recurrence(row) == row[3] = Add(row[2], row[1])

\* the row continues the one before it
rows_consistent(before, row) == row[1] = before[2] /\ row[2] = before[3]

\* a correct Fibonacci execution trace
correct_trace(rows) ==
    /\ \A i \in 1..Len(rows) : row_recurrence(rows[i])
    /\ \A i \in 2..Len(rows) : rows_consistent(rows[i - 1], rows[i])

\* the polynomial is zero at every point of the domain
vanishes_on(poly, domain) ==
    \A i \in 1..size(domain) : is_zero(evaluate(poly, element(domain, i - 1)))

\* C23: the polynomial of create_fibonacci_constraint_poly vanishes at every
\* point of the trace domain if and only if the trace is a correct Fibonacci
\* execution trace: every row, rows 0 and 1 included, satisfies the
\* recurrence, and consecutive rows are consistent.
C23_CompositionCharacterises ==
    call.op = "create_fibonacci_constraint_poly"
    => (vanishes_on(call.value.poly, call.value.domain) <=> correct_trace(call.args[1]))

(***************************************************************************)
(* Properties of the folding.                                              *)
(***************************************************************************)
\* the number k of halvings with n = t * 2^k, -1 when there is none
RECURSIVE halvings(_, _)
halvings(n, t) ==
    IF n = t THEN 0
    ELSE IF n < t \/ n % 2 # 0 THEN -1
    ELSE IF halvings(n \div 2, t) < 0 THEN -1
    ELSE 1 + halvings(n \div 2, t)

\* fold_once applied k times, with the first k betas in their order
RECURSIVE folded(_, _, _)
folded(values, betas, k) ==
    IF k = 0 THEN values
    ELSE folded(fold_once(values, Head(betas)), Tail(betas), k - 1)

\* v + beta * w in the default field, on canonical values
folded_value(v, beta, w) ==
    new(Rem(Add(v.value, Mul(beta.value, w.value)), DEFAULT_FIELD_SIZE))

\* C21: fold_once on a vector v of even length N returns N/2 elements with
\* out[i] = v[i] + beta * v[i + N/2]; and for N = t * 2^k, fold_until with
\* the challenges beta_1..beta_k and target t returns the N / 2^k elements of
\* k applications of fold_once with beta_1, ..., beta_k in that order.
C21_Folding ==
    /\ (call.op = "fold_once" /\ call.args[1] # <<>> /\ Len(call.args[1]) % 2 = 0)
       => /\ call.panic = "none"
          /\ Len(call.value) = Len(call.args[1]) \div 2
          /\ \A i \in 1..Len(call.value) :
                 call.value[i] = folded_value(call.args[1][i], call.args[2],
                                              call.args[1][i + Len(call.value)])
    /\ (/\ call.op = "fold_until"
        /\ call.args[3] > 0
        /\ halvings(Len(call.args[1]), call.args[3]) = Len(call.args[2]))
       => /\ call.panic = "none"
          /\ Len(call.value) = call.args[3]
          /\ call.value = folded(call.args[1], call.args[2], Len(call.args[2]))

\* C21 witness: twelve values were folded twice by fold_until, down to three
C21_Witness ==
    /\ call.op = "fold_until" /\ call.panic = "none"
    /\ Len(call.args[1]) = 12 /\ Len(call.args[2]) = 2 /\ call.args[3] = 3
    /\ Len(call.value) = 3
    /\ call.value # SubSeq(call.args[1], 1, 3)

\* C24: fold_until panics when target_len is 0, exceeds the input length or
\* is not the input length divided by a power of two, and when fewer
\* challenges are supplied than folds are needed; when it returns, the result
\* has exactly target_len elements.
C24_FoldUntilLength ==
    call.op = "fold_until"
    => /\ (\/ call.args[3] = 0
           \/ call.args[3] > Len(call.args[1])
           \/ halvings(Len(call.args[1]), call.args[3]) < 0
           \/ halvings(Len(call.args[1]), call.args[3]) > Len(call.args[2]))
          => call.panic # "none"
       /\ call.panic = "none" => Len(call.value) = call.args[3]

(***************************************************************************)
(* Properties of the Merkle tree.                                          *)
(***************************************************************************)
\* the list `elems` with position k holding v
replaced(elems, k, v) == [j \in 1..Len(elems) |-> IF j = k THEN v ELSE elems[j]]

\* C7: a lookup at an index below the padded leaf count of a tree built from a
\* non-empty list returns a proof; folding the level-0 hash at that index with
\* every proof element but the last gives the root, the last element is the
\* root, and the proof of a single-leaf tree is just the root.
C7_MerkleRoundTrip ==
    (/\ built /\ elements # <<>>
     /\ lookup.index >= 0 /\ lookup.index < leaf_count(tree))
    => /\ ~lookup.panic
       /\ lookup.value # None
       /\ lookup.value[1] # <<>>
       /\ LET path == lookup.value[1]
          IN  /\ path[Len(path)] = root(tree)[1]
              /\ fold_siblings(tree.nodes[1][lookup.index + 1], path, Len(path) - 1)
                    = root(tree)[1]
              /\ (leaf_count(tree) = 1 => path = <<root(tree)[1]>>)

\* C7 witness: a proof was returned for the padding position of a 3-leaf tree
C7_Witness ==
    /\ Len(elements) = 3
    /\ lookup.index = 3
    /\ lookup.value # None
    /\ Len(lookup.value[1]) = 3

\* C8: right after a build from a non-empty list, building from any list of the
\* same length that differs from it in exactly one position (by field value)
\* gives a different root.
C8_MerkleBinding ==
    (built /\ elements # <<>> /\ lookup = NoLookup)
    => \A k \in 1..Len(elements) : \A v \in LeafValues :
          new(I(v)) # elements[k]
          => root(build(replaced(elements, k, new(I(v))))) # root(tree)

\* C8 witness: a 3-leaf tree whose last leaf is 30 has been built
C8_Witness ==
    /\ built
    /\ lookup = NoLookup
    /\ Len(elements) = 3
    /\ elements[3] = new(I(30))
    /\ root(tree) # None

sibling(n) == IF n % 2 = 0 THEN n + 1 ELSE n - 1

\* the d with count = 2^d
depth_of(count) == CHOOSE d \in 0..count : 2 ^ d = count

\* C26: for a tree of padded leaf count 2^d and an index i < 2^d,
\* get_merkle_proof(i) returns d + 1 elements: for each level k in 0..d-1 the
\* stored hash at index (i div 2^k) xor 1 of level k, from the leaves up, and
\* the root as the last element.
C26_ProofFormat ==
    (/\ built /\ elements # <<>>
     /\ lookup.index >= 0 /\ lookup.index < leaf_count(tree))
    => /\ ~lookup.panic
       /\ lookup.value # None
       /\ LET d == depth_of(leaf_count(tree))
          IN  /\ Len(lookup.value[1]) = d + 1
              /\ \A k \in 0..(d - 1) :
                     lookup.value[1][k + 1]
                         = tree.nodes[k + 1][sibling(lookup.index \div (2 ^ k)) + 1]
              /\ lookup.value[1][d + 1] = root(tree)[1]

\* C26 witness: the proof for index 2 of a tree of four leaves was returned:
\* its first element is the padding hash at index 3
C26_Witness ==
    /\ built /\ leaf_count(tree) = 4
    /\ lookup.index = 2
    /\ lookup.value # None
    /\ lookup.value[1][1] = Zero
    /\ lookup.value[1][2] = tree.nodes[2][1]

\* C27: after MerkleTree::new() and after any sequence of builds from empty
\* and non-empty inputs the tree reflects the most recent build only:
\* leaf_count() is the length of padded_leaves(), each level has half the
\* length of the level below it, root() is Some(the single element of the
\* last level) exactly when the last input was not empty and None otherwise,
\* and building the same input again gives the same root.
C27_RebuildInvariant ==
    /\ leaf_count(tree) = Len(tree.padded_leaves)
    /\ \A k \in 1..(Len(tree.nodes) - 1) :
           2 * Len(tree.nodes[k + 1]) = Len(tree.nodes[k])
    /\ (built /\ elements # <<>>)
       => /\ Len(tree.nodes[Len(tree.nodes)]) = 1
          /\ root(tree) = Some(tree.nodes[Len(tree.nodes)][1])
    /\ (~built \/ elements = <<>>) => root(tree) = None
    /\ built => /\ tree = build(elements)
                /\ root(build(elements)) = root(tree)

\* C27 witness: a tree built from two elements: two leaves below one root
C27_Witness ==
    /\ built /\ Len(elements) = 2
    /\ Len(tree.nodes) = 2
    /\ Len(tree.padded_leaves) = 2
    /\ root(tree) = Some(tree.nodes[2][1])

\* C10: in every state of the tree (never built, built from an empty list,
\* built from a non-empty list) a build from the empty list leaves one empty
\* level and no root, and a lookup at an index >= leaf_count returns None
\* without panicking.
C10_MerkleFailureModes ==
    /\ build(<<>>).nodes = << <<>> >>
    /\ root(build(<<>>)) = None
    /\ (built /\ elements = <<>>) => (tree.nodes = << <<>> >> /\ root(tree) = None)
    /\ (lookup.index >= leaf_count(tree)) => (~lookup.panic /\ lookup.value = None)
====
